---- MODULE Spec2Model ----
(***************************************************************************)
(* A model of the TSS server facade of ordinox/thorchain-tss               *)
(* (src/tss/tss.go): the derivation of the session id from a request, the  *)
(* choice of the join-party variant, the construction of the server        *)
(* (NewTss), Start, Stop and the keygen lock.                              *)
(*                                                                         *)
(* Go strings are sequences of byte values; a []string is a sequence of    *)
(* such sequences.                                                         *)
(***************************************************************************)
EXTENDS Naturals, Integers, Sequences, FiniteSets, Bags, TLC

\* ------------------------------------------------------------------ bounds

\* The longest Keys / SignerPubKeys slice of a request.
MaxKeys == 2
\* The longest Messages slice of a keysign request.
MaxMsgs == 2
\* The number of times one request is handed to requestToMsgId.
MaxCalls == 2

\* ------------------------------------------------------------------ state

\* requestToMsgId
VARIABLES
    original,   \* the request as first issued
    request,    \* the request value the caller holds (its slices are shared
                \* with requestToMsgId, which sorts them in place)
    pending,    \* the request has not been handed to requestToMsgId yet
    calls,      \* the number of calls made for this request
    submitted,  \* the request as it was when the latest call was made
    nodes,      \* the nodes called so far for this request
    ret,        \* what the latest call of requestToMsgId returned
    dat,        \* the byte string the latest call handed to the hash
    ids,        \* the session ids returned so far for this request
    prev        \* an earlier request and the byte string hashed for it

msgVars ==
    <<original, request, pending, calls, submitted, nodes, ret, dat, ids, prev>>

\* joinParty
VARIABLES
    jpArgs,     \* the arguments of the latest joinParty call
    jpInvoked,  \* the party-coordinator calls that joinParty call made
    jpRet       \* what it returned

joinVars == <<jpArgs, jpInvoked, jpRet>>

\* NewTss, and the objects it builds
VARIABLES
    ntPc,            \* where NewTss is
    cmdBootstrapPeers, \* its parameter
    preParamsGiven,  \* its parameter preParams as the caller handed it
    preParams,       \* its variable preParams
    generated,       \* GeneratePreParams has been called
    savedErr,        \* RetrieveP2PAddresses returned an error
    savedPeers,      \* the addresses RetrieveP2PAddresses returned
    bootstrapPeers,  \* its variable bootstrapPeers
    commPeers,       \* the bootstrap peers p2p.NewCommunication was given
    ntErr,           \* the error NewTss returned ("nil": none)
    comm,            \* the P2P transport: none, created, started, stopped,
                     \* stopFailed (Stop returned an error)
    pcoord,          \* the party coordinator: none, running, stopped
    notifier,        \* the signature notifier: none, created
    server           \* the TssServer NewTss returned

newTssVars ==
    <<ntPc, cmdBootstrapPeers, preParamsGiven, preParams, generated, savedErr,
      savedPeers, bootstrapPeers, commPeers, ntErr, comm, pcoord, notifier,
      server>>

\* Start, Stop and the tasks waiting for the stop signal
VARIABLES
    startCalls,   \* the Start calls made
    startRet,     \* what the latest Start returned ("none": no call yet)
    lastStartAt,  \* where Stop was when Start was last called
    stopPc,       \* where Stop is: idle, p2p, coordinator, returned
    panicked,     \* the process died of a panic
    waitPc        \* each waiting task: idle, waiting (on <-stopChan), released

lifeVars == <<startCalls, startRet, lastStartAt, stopPc, panicked, waitPc>>

VARIABLES
    keygenPc,     \* each Keygen request: idle, locking, running
    keysignPc,    \* each KeySign request: idle, entering, running
    overlapped    \* two KeySign runs have been running at the same time

lockVars == <<keygenPc, keysignPc, overlapped>>

\* The leaderless join-party round of one session (JoinPartyWithRetry)
VARIABLES
    rtPeers,      \* the peer ids joinParty hands to JoinPartyWithRetry
    rtThreshold,  \* the threshold handed to joinParty
    rtQuorum,     \* the number of peers the coordinator waits for
    rtLive,       \* the participants that are up and take part
    rtGot,        \* per peer, the peers whose intent it has (itself included)
    rtStatus,     \* per peer: idle, joining, formed, timeout
    rtRet         \* per peer, what its joinParty call returned

retryVars == <<rtPeers, rtThreshold, rtQuorum, rtLive, rtGot, rtStatus, rtRet>>

\* The leader-based join-party round of one session (JoinPartyWithLeader)
VARIABLES
    ldPeers,       \* the peer ids joinParty hands to JoinPartyWithLeader
    ldThreshold,   \* the threshold it hands over
    ldLive,        \* the participants that are up and take part
    ldDigest,      \* the rank of each peer's digest for this session
    ldSent,        \* the followers that have sent their request
    ldRequesters,  \* the distinct requesters the leader counts
    ldSelected,    \* the chosen_peers list the leader broadcast (<<>>: none)
    ldAtSelection, \* the requesters the leader had when it selected
    ldStatus,      \* per peer: idle, waiting, done, or the failure reason
    ldChosen,      \* per peer, the chosen_peers list it ends with
    ldRet          \* per peer, what its joinParty call returned

leaderVars ==
    <<ldPeers, ldThreshold, ldLive, ldDigest, ldSent, ldRequesters, ldSelected,
      ldAtSelection, ldStatus, ldChosen, ldRet>>

\* The sessions of the Session Engine
VARIABLES
    ssState,    \* per session: none, NEW, JOINING, RUNNING, DONE, FAILED, TIMEOUT
    ssInbox,    \* per session, the events its engine has not handled yet
    ssEmitted,  \* per session, the events emitted so far
    ssWriters   \* per session, the tasks that have written its state

sessVars == <<ssState, ssInbox, ssEmitted, ssWriters>>

\* runKeyGen of tss-benchgen
VARIABLES
    kgN,          \* n, the number of parties
    kgPc,         \* the routing loop: none, select, exited, panicked
    errCh,        \* the error channel (capacity n)
    outCh,        \* the out channel (capacity n)
    endCh,        \* the end channel (capacity n)
    kgParty,      \* per party: started, running, blocked (in a send on
                  \* outCh), ended
    kgPending,    \* per party, the message its blocked send carries
    kgBroken,     \* the parties whose Start or Update returned an error
    kgEmitted,    \* the number of messages emitted so far
    kgTasks,      \* the delivery tasks started and not yet run (a bag)
    ended,        \* the counter of save results
    receivedIncomingMsgs, \* the progress counter
    kgFiles,      \* the files of the data directory, by path
    kgCause       \* why the run panicked

kgVars ==
    <<kgN, kgPc, errCh, outCh, endCh, kgParty, kgPending, kgBroken, kgEmitted,
      kgTasks, ended, receivedIncomingMsgs, kgFiles, kgCause>>

\* notifyJoinPartyChan and the tasks that set and unset the channel
VARIABLES
    joinPartyChan, \* t.joinPartyChan: "nil" or a channel
    jpcSignals,    \* per channel, the signals sent on it so far
    setCalls,      \* the calls of setJoinPartyChan and unsetJoinPartyChan
    nfPc,          \* notifyJoinPartyChan: idle, send (past the nil check),
                   \* sending (waiting for the send to go through),
                   \* returned, or blocked in a send on a nil channel
    nfSeen,        \* the channel the nil check of the call read
    nfChan,        \* the channel the send statement operates on
    nfSent,        \* the signals the call has sent
    nfCalls        \* the calls of notifyJoinPartyChan

notifyVars ==
    <<joinPartyChan, jpcSignals, setCalls, nfPc, nfSeen, nfChan, nfSent,
      nfCalls>>

\* tryWriteKeyGenDataFile, called on its own
VARIABLES
    twFiles,   \* the files of the data directory, by path
    twFirst,   \* per party index, the data of the first call that returned
    twLast,    \* the arguments of the latest call
    twPc,      \* ready, or panicked
    twCalls    \* the calls so far

writeVars == <<twFiles, twFirst, twLast, twPc, twCalls>>

\* MockTssServer
VARIABLES
    failToStart,    \* mts.failToStart
    failToKeyGen,   \* mts.failToKeyGen
    failToKeySign,  \* mts.failToKeySign
    mkLog           \* the calls so far, each with what it returned

mockVars == <<failToStart, failToKeyGen, failToKeySign, mkLog>>

\* The state of the facade in src/tss/tss.go.
serverVars == <<msgVars, joinVars, newTssVars, lifeVars, lockVars>>

\* The state of the party coordinator.
extVars ==
    <<retryVars, leaderVars, sessVars, kgVars, notifyVars, writeVars, mockVars>>

vars == <<serverVars, extVars>>

\* ---------------------------------------------------------------- strings

\* The separator byte of strings.Join(value.Messages, ",").
Comma == 44

\* The strings requests are built from: "a", "b", "ab" for public keys and
\* "a", "b", "a,b" for messages (byte values; ',' sorts before the letters).
KeyPool == { <<97>>, <<98>>, <<97, 98>> }
MsgPool == { <<97>>, <<98>>, <<97, 44, 98>> }

\* Go's < on strings: bytewise lexicographic order, a proper prefix first.
RECURSIVE StrLess(_, _)
StrLess(a, b) ==
    IF Len(b) = 0 THEN FALSE
    ELSE IF Len(a) = 0 THEN TRUE
    ELSE IF Head(a) < Head(b) THEN TRUE
    ELSE IF Head(a) > Head(b) THEN FALSE
    ELSE StrLess(Tail(a), Tail(b))

\* One pass of the inner loop of insertion sort: the element at j moves
\* left while it is less than its left neighbour.
RECURSIVE SinkLeft(_, _)
SinkLeft(s, j) ==
    IF j > 1 /\ StrLess(s[j], s[j - 1])
    THEN SinkLeft([s EXCEPT ![j] = s[j - 1], ![j - 1] = s[j]], j - 1)
    ELSE s

RECURSIVE InsertionSortFrom(_, _)
InsertionSortFrom(s, i) ==
    IF i > Len(s) THEN s ELSE InsertionSortFrom(SinkLeft(s, i), i + 1)

\* A plausible slip: the slice is used in the order the caller gave it.
SortStringsSkipped(s) == s

\* sort.Strings(x): sorts the slice in place in increasing order.  For the
\* short slices of this model Go's pattern-defeating quicksort is its
\* insertion sort.
SortStrings(s) == InsertionSortFrom(s, 2)

\* A plausible slip: the separator is left out of the join.
RECURSIVE JoinNoSeparator(_)
JoinNoSeparator(s) ==
    IF Len(s) = 0 THEN <<>> ELSE Head(s) \o JoinNoSeparator(Tail(s))

\* strings.Join(value.Messages, ","): the elements with one separator
\* between each two neighbours; the empty string for an empty slice.
RECURSIVE JoinComma(_)
JoinComma(s) ==
    IF Len(s) = 0 THEN <<>>
    ELSE IF Len(s) = 1 THEN Head(s)
    ELSE Head(s) \o <<Comma>> \o JoinComma(Tail(s))

\* for _, el := range keys { keyAccumulation += el }
RECURSIVE KeyAccumulation(_)
KeyAccumulation(keys) ==
    IF Len(keys) = 0 THEN <<>> ELSE Head(keys) \o KeyAccumulation(Tail(keys))

\* common.MsgToHashString(dat): ("", "empty message") for an empty dat, else
\* the hex digest of dat, kept symbolic: equal inputs give equal digests and
\* distinct inputs distinct digests.
MsgToHashString(msg) ==
    IF Len(msg) = 0
    THEN [id |-> <<>>, err |-> "empty message"]
    ELSE [id |-> [sha256 |-> msg], err |-> "nil"]

\* --------------------------------------------------------------- requests

SeqsUpTo(S, n) == UNION { [1..k -> S] : k \in 0..n }

\* keygen.Request (Keys), keysign.Request (Messages, SignerPubKeys) and
\* values of other types handed to requestToMsgId(request interface{}): a
\* value with no such fields, and a pointer to a keygen.Request, which the
\* type switch does not take for a keygen.Request.
KeygenRequests ==
    { [kind |-> "keygen", Messages |-> <<>>, Keys |-> k] :
        k \in SeqsUpTo(KeyPool, MaxKeys) }
KeysignRequests ==
    { [kind |-> "keysign", Messages |-> m, Keys |-> k] :
        m \in SeqsUpTo(MsgPool, MaxMsgs), k \in SeqsUpTo(KeyPool, MaxKeys) }
OtherRequests ==
    { [kind |-> "other", Messages |-> <<>>, Keys |-> <<>>] }
    \cup { [kind |-> "*keygen.Request", Messages |-> <<>>, Keys |-> k] :
             k \in SeqsUpTo(KeyPool, MaxKeys) }
Requests == KeygenRequests \cup KeysignRequests \cup OtherRequests

\* The rearrangements of a slice.
Perms(s) ==
    { [i \in 1..Len(s) |-> s[f[i]]] :
        f \in { g \in [1..Len(s) -> 1..Len(s)] :
                  \A i, j \in 1..Len(s) : g[i] = g[j] => i = j } }

\* The multiset of the elements of a slice.
RECURSIVE BagOf(_)
BagOf(s) == IF Len(s) = 0 THEN EmptyBag ELSE SetToBag({Head(s)}) (+) BagOf(Tail(s))

\* The requests that differ from r only in the order of Messages and Keys.
Rearranged(r) ==
    { [kind |-> r.kind, Messages |-> m, Keys |-> k] :
        m \in Perms(r.Messages), k \in Perms(r.Keys) }

\* ---------------------------------------------------------- requestToMsgId

\* The Messages slice after the call: sorted in place for a keysign request.
MessagesAfter(r) ==
    IF r.kind = "keysign" THEN SortStrings(r.Messages) ELSE r.Messages

\* A plausible slip: the keys are copied before they are sorted, so the
\* caller's slice keeps its order.
KeysAfterSortedCopy(r) == r.Keys

\* The keys slice after the call: value.Keys or value.SignerPubKeys, sorted
\* in place unless the request type is unknown (the early return).
KeysAfter(r) ==
    IF r.kind \in {"keygen", "keysign"} THEN SortStrings(r.Keys) ELSE r.Keys

\* dat as handed to common.MsgToHashString.
HashInput(r) ==
    LET dat0 == IF r.kind = "keysign" THEN JoinComma(MessagesAfter(r)) ELSE <<>>
    IN  dat0 \o KeyAccumulation(KeysAfter(r))

\* A plausible slip: the default case logs the unknown type and lacks its
\* return, so the call goes on to hash.
RequestToMsgIdNoEarlyReturn(r) ==
    LET h == MsgToHashString(HashInput(r))
    IN  [id |-> h.id, err |-> h.err, hashed |-> TRUE]

\* The (string, error) pair requestToMsgId returns: what
\* common.MsgToHashString(dat) returns, its error included, or the error of
\* the default case. hashed tells that dat was handed to the hash.
RequestToMsgId(r) ==
    IF r.kind \in {"keygen", "keysign"}
    THEN LET h == MsgToHashString(HashInput(r))
         IN  [id |-> h.id, err |-> h.err, hashed |-> TRUE]
    ELSE [id |-> <<>>, err |-> "unknown request type", hashed |-> FALSE]

\* ------------------------------------------------- requestToMsgId, called

\* The nodes a request can be handed to.
Servers == {"node1", "node2"}

NoRequest == [kind |-> "none", Messages |-> <<>>, Keys |-> <<>>]
NoReturn == [id |-> <<>>, err |-> "none", hashed |-> FALSE]
NoBytes == <<>>
NoPrev ==
    [kind |-> "none", Messages |-> EmptyBag, Keys |-> EmptyBag,
     accepted |-> FALSE, dat |-> <<>>]

MsgInit ==
    /\ original \in Requests
    /\ request = original
    /\ pending = TRUE
    /\ calls = 0
    /\ submitted = NoRequest
    /\ nodes = {}
    /\ ret = NoReturn
    /\ dat = NoBytes
    /\ ids = {}
    /\ prev = NoPrev

\* The same request reaches a node again with its Messages and its keys in
\* another order.
Resubmit ==
    /\ ~pending
    /\ calls < MaxCalls
    /\ \E r \in Rearranged(original) : request' = r
    /\ pending' = TRUE
    /\ UNCHANGED <<original, calls, submitted, nodes, ret, dat, ids, prev>>
    /\ UNCHANGED <<joinVars, newTssVars, lifeVars, lockVars, extVars>>

\* t.requestToMsgId(request) on node t.
CallRequestToMsgId ==
    \E t \in Servers :
        /\ pending
        /\ pending' = FALSE
        /\ calls' = calls + 1
        /\ ret' = RequestToMsgId(request)
        /\ dat' = IF ret'.hashed THEN HashInput(request) ELSE NoBytes
        /\ request' = [request EXCEPT !.Messages = MessagesAfter(request),
                                      !.Keys = KeysAfter(request)]
        /\ submitted' = request
        /\ nodes' = nodes \cup {t}
        /\ ids' = IF ret'.err = "nil" THEN ids \cup {ret'.id} ELSE ids
        /\ UNCHANGED <<original, prev>>
        /\ UNCHANGED <<joinVars, newTssVars, lifeVars, lockVars, extVars>>

\* The caller keeps what the call was about and issues another request.
NextRequest ==
    /\ ~pending
    /\ prev.kind = "none"
    /\ prev' = [kind |-> original.kind,
                Messages |-> BagOf(original.Messages),
                Keys |-> BagOf(original.Keys),
                accepted |-> ret.err = "nil",
                dat |-> dat]
    /\ \E r \in Requests : original' = r /\ request' = r
    /\ pending' = TRUE
    /\ calls' = 0
    /\ submitted' = NoRequest
    /\ nodes' = {}
    /\ ret' = NoReturn
    /\ dat' = NoBytes
    /\ ids' = {}
    /\ UNCHANGED <<joinVars, newTssVars, lifeVars, lockVars, extVars>>

\* --------------------------------------------------------------- joinParty

\* The longest participants slice handed to joinParty.
MaxParticipants == 2
\* The largest threshold handed to joinParty.
MaxThreshold == 1

\* A participant key that is no valid public key ("?").
BadKey == <<63>>
ParticipantPool == KeyPool \cup {BadKey}

\* The version strings of the requests: "0.13.0", "0.14.0", "0.15.0",
\* "0.9.0", "1.0.0", and two that are no versions, "" and "0.14".
VersionPool ==
    { <<48, 46, 49, 51, 46, 48>>, <<48, 46, 49, 52, 46, 48>>,
      <<48, 46, 49, 53, 46, 48>>, <<48, 46, 57, 46, 48>>,
      <<49, 46, 48, 46, 48>>, <<>>, <<48, 46, 49, 52>> }

\* messages.NEWJOINPARTYVERSION, "0.14.0".
NEWJOINPARTYVERSION == <<48, 46, 49, 52, 46, 48>>

\* The dot-separated parts of a version string.
RECURSIVE SplitDots(_, _)
SplitDots(s, cur) ==
    IF Len(s) = 0 THEN <<cur>>
    ELSE IF Head(s) = 46 THEN <<cur>> \o SplitDots(Tail(s), <<>>)
    ELSE SplitDots(Tail(s), Append(cur, Head(s)))

IsNumeral(part) ==
    Len(part) > 0 /\ \A i \in 1..Len(part) : part[i] >= 48 /\ part[i] <= 57

RECURSIVE NumeralValue(_, _)
NumeralValue(part, acc) ==
    IF Len(part) = 0 THEN acc
    ELSE NumeralValue(Tail(part), 10 * acc + (Head(part) - 48))

\* The semantic-version parts <<major, minor, patch>> of a version string.
ParseVersion(v) ==
    LET parts == SplitDots(v, <<>>)
    IN  IF Len(parts) = 3 /\ \A i \in 1..3 : IsNumeral(parts[i])
        THEN [ok |-> TRUE,
              parts |-> [i \in 1..3 |-> NumeralValue(parts[i], 0)]]
        ELSE [ok |-> FALSE, parts |-> <<0, 0, 0>>]

\* a is an older version than b, part by part.
PartsLess(a, b) ==
    \/ a[1] < b[1]
    \/ a[1] = b[1] /\ a[2] < b[2]
    \/ a[1] = b[1] /\ a[2] = b[2] /\ a[3] < b[3]

\* conversion.VersionLTCheck(currentVer, expectedVer): (currentVer is
\* strictly older than expectedVer, error when either does not parse).
VersionLTCheck(currentVer, expectedVer) ==
    LET c == ParseVersion(currentVer)
        e == ParseVersion(expectedVer)
    IN  IF c.ok /\ e.ok
        THEN [lt |-> PartsLess(c.parts, e.parts), err |-> "nil"]
        ELSE [lt |-> FALSE, err |-> "parse"]

\* conversion.GetPeerIDsFromPubKeys(participants): the peer id of every
\* key, in order; an error when a key is no valid public key.
GetPeerIDsFromPubKeys(participants) ==
    IF \A i \in 1..Len(participants) : participants[i] \in KeyPool
    THEN [peers |-> [i \in 1..Len(participants) |-> [peer |-> participants[i]]],
          err |-> "nil"]
    ELSE [peers |-> <<>>, err |-> "invalid pubkey"]

\* The lists made of some of the elements of s, in the order of s.
RECURSIVE Sublists(_)
Sublists(s) ==
    IF Len(s) = 0 THEN {<<>>}
    ELSE Sublists(Tail(s)) \cup { <<Head(s)>> \o r : r \in Sublists(Tail(s)) }

\* What the party coordinator may answer to JoinPartyWithRetry when the
\* party has formed or PartyTimeout has run out: the peers found online,
\* all or some or none of the list, and an error or none.
JoinPartyWithRetryReturns(peers) ==
    { [onlines |-> o, leader |-> "NONE", err |-> e] :
        o \in Sublists(peers), e \in {"nil", "join party timeout"} }

\* What the party coordinator may answer to JoinPartyWithLeader: the peers
\* found online, the leader and an error or none.
JoinPartyWithLeaderReturns(peers, threshold) ==
    { [onlines |-> o, leader |-> l, err |-> e] :
        o \in Sublists(peers),
        l \in { peers[i].peer : i \in 1..Len(peers) },
        e \in {"nil", "join party timeout"} }

\* A plausible slip: a version equal to NEWJOINPARTYVERSION is still sent
\* down the leaderless path.
UseLeaderlessOrEqual(version) ==
    VersionLTCheck(version, NEWJOINPARTYVERSION).lt
        \/ version = NEWJOINPARTYVERSION

\* oldJoinParty of joinParty, once the version has parsed.
UseLeaderless(version) == VersionLTCheck(version, NEWJOINPARTYVERSION).lt

NoJoinArgs == [version |-> <<>>, participants |-> <<>>, threshold |-> 0, called |-> FALSE]
NoJoinReturn == [onlines |-> <<>>, leader |-> "", err |-> "none"]

JoinInit ==
    /\ jpArgs = NoJoinArgs
    /\ jpInvoked = <<>>
    /\ jpRet = NoJoinReturn

\* t.joinParty(msgID, version, blockHeight, participants, threshold,
\* sigChan) up to its first return or its call of the party coordinator,
\* in which it then waits; msgID, blockHeight and sigChan are handed on
\* unchanged.  The call keeps no state, so one call per behaviour covers
\* them all.
JoinParty ==
    \E version \in VersionPool,
       participants \in SeqsUpTo(ParticipantPool, MaxParticipants),
       threshold \in 0..MaxThreshold :
        /\ ~jpArgs.called
        /\ UNCHANGED <<msgVars, newTssVars, lifeVars, lockVars, extVars>>
        /\ jpArgs' = [version |-> version, participants |-> participants,
                      threshold |-> threshold, called |-> TRUE]
        /\ IF VersionLTCheck(version, NEWJOINPARTYVERSION).err # "nil"
           THEN /\ jpInvoked' = <<>>
                /\ jpRet' = [onlines |-> <<>>, leader |-> "", err |-> "fail to parse the version"]
           ELSE IF UseLeaderless(version)
           THEN LET conv == GetPeerIDsFromPubKeys(participants)
                IN  IF conv.err # "nil"
                    THEN /\ jpInvoked' = <<>>
                         /\ jpRet' = [onlines |-> <<>>, leader |-> "NONE",
                                      err |-> "fail to convert pub key to peer id"]
                    ELSE /\ jpInvoked' = <<[variant |-> "JoinPartyWithRetry",
                                            args |-> <<conv.peers>>]>>
                         /\ jpRet' = NoJoinReturn
           ELSE IF Len(participants) = 0
           THEN /\ jpInvoked' = <<>>
                /\ jpRet' = [onlines |-> <<>>, leader |-> "",
                             err |-> "no participants can be found"]
           ELSE LET conv == GetPeerIDsFromPubKeys(participants)
                IN  IF conv.err # "nil"
                    THEN /\ jpInvoked' = <<>>
                         /\ jpRet' = [onlines |-> <<>>, leader |-> "",
                                      err |-> "fail to convert the public key to peer ID"]
                    ELSE /\ jpInvoked' = <<[variant |-> "JoinPartyWithLeader",
                                            args |-> <<conv.peers, threshold>>]>>
                         /\ jpRet' = NoJoinReturn

\* The party coordinator answers, the party formed or PartyTimeout run out,
\* and joinParty returns: return onlines, "NONE", err on the leaderless
\* path, the three values of JoinPartyWithLeader on the other.
JoinPartyReturn ==
    /\ jpArgs.called
    /\ jpInvoked # <<>>
    /\ jpRet = NoJoinReturn
    /\ LET call == jpInvoked[1]
       IN  IF call.variant = "JoinPartyWithRetry"
           THEN jpRet' \in JoinPartyWithRetryReturns(call.args[1])
           ELSE jpRet' \in JoinPartyWithLeaderReturns(call.args[1], call.args[2])
    /\ UNCHANGED <<jpArgs, jpInvoked>>
    /\ UNCHANGED <<msgVars, newTssVars, lifeVars, lockVars, extVars>>

\* ------------------------------------------------------------------ NewTss

\* The longest cmdBootstrapPeers slice handed to NewTss.
MaxCmdPeers == 1
\* The longest address list the address book returns.
MaxSavedPeers == 1

\* The multiaddrs of the peers.
AddrPool == {"/ip4/10.0.0.1", "/ip4/10.0.0.2"}

\* preParams as handed to NewTss: nil, or pre-parameters for which the
\* library's Validate() is true or false.
PreParamValues == {"nil", "valid", "invalid"}

\* preParams.Validate()
Validate(p) == p = "valid"

\* The errors NewTss returns.
NewTssErrors ==
    { "fail to genearte the key", "fail to create file state manager",
      "fail to create communication layer", "fail to generate pre parameters",
      "invalid preparams", "fail to get private key",
      "fail to start p2p network" }

NoServer ==
    [constructed |-> FALSE, conf |-> "none", localNodePubKey |-> "none",
     preParams |-> "nil", tssKeyGenLocker |-> "none", stopChan |-> "none",
     joinPartyChan |-> "nil", stateManager |-> "none",
     privateKey |-> "none", tssMetrics |-> "none"]

NewTssInit ==
    /\ ntPc = "marshalPubKey"
    /\ cmdBootstrapPeers \in SeqsUpTo(AddrPool, MaxCmdPeers)
    /\ preParamsGiven \in PreParamValues
    /\ preParams = preParamsGiven
    /\ generated = FALSE
    /\ savedErr = FALSE
    /\ savedPeers = <<>>
    /\ bootstrapPeers = <<>>
    /\ commPeers = <<>>
    /\ ntErr = "nil"
    /\ comm = "none"
    /\ pcoord = "none"
    /\ notifier = "none"
    /\ server = NoServer

\* return nil, err
NewTssFails(err) ==
    /\ ntPc' = "failed"
    /\ ntErr' = err

\* pubKey, err := sdk.MarshalPubKey(sdk.AccPK, &pk)
NewTssMarshalPubKey ==
    /\ ntPc = "marshalPubKey"
    /\ UNCHANGED <<msgVars, joinVars, lifeVars, lockVars, extVars>>
    /\ \/ NewTssFails("fail to genearte the key")
       \/ ntPc' = "stateMgr" /\ UNCHANGED ntErr
    /\ UNCHANGED <<cmdBootstrapPeers, preParamsGiven, preParams, generated,
                   savedErr, savedPeers, bootstrapPeers, commPeers, comm,
                   pcoord, notifier, server>>

\* stateManager, err := storage.NewFileStateMgr(baseFolder)
NewTssStateMgr ==
    /\ ntPc = "stateMgr"
    /\ UNCHANGED <<msgVars, joinVars, lifeVars, lockVars, extVars>>
    /\ \/ NewTssFails("fail to create file state manager")
       \/ ntPc' = "retrieve" /\ UNCHANGED ntErr
    /\ UNCHANGED <<cmdBootstrapPeers, preParamsGiven, preParams, generated,
                   savedErr, savedPeers, bootstrapPeers, commPeers, comm,
                   pcoord, notifier, server>>

\* A plausible slip: an address book that cannot be read ends NewTss.
NewTssRetrieveFatal ==
    /\ ntPc = "retrieve"
    /\ UNCHANGED <<msgVars, joinVars, lifeVars, lockVars, extVars>>
    /\ \/ /\ savedErr' = TRUE
          /\ NewTssFails("fail to retrieve the address book")
          /\ UNCHANGED <<savedPeers, bootstrapPeers>>
       \/ \E saved \in SeqsUpTo(AddrPool, MaxSavedPeers) :
             /\ savedErr' = FALSE
             /\ savedPeers' = saved
             /\ bootstrapPeers' = saved \o cmdBootstrapPeers
             /\ ntPc' = "newComm"
             /\ UNCHANGED ntErr
    /\ UNCHANGED <<cmdBootstrapPeers, preParamsGiven, preParams, generated,
                   commPeers, comm, pcoord, notifier, server>>

\* savedPeers, err := stateManager.RetrieveP2PAddresses(), and the choice
\* of bootstrapPeers that follows it.
NewTssRetrieve ==
    /\ ntPc = "retrieve"
    /\ UNCHANGED <<msgVars, joinVars, lifeVars, lockVars, extVars>>
    /\ \/ /\ savedErr' = TRUE
          /\ savedPeers' = <<>>
          /\ bootstrapPeers' = cmdBootstrapPeers
       \/ \E saved \in SeqsUpTo(AddrPool, MaxSavedPeers) :
             /\ savedErr' = FALSE
             /\ savedPeers' = saved
             /\ bootstrapPeers' = saved \o cmdBootstrapPeers
    /\ ntPc' = "newComm"
    /\ UNCHANGED <<cmdBootstrapPeers, preParamsGiven, preParams, generated,
                   commPeers, ntErr, comm, pcoord, notifier, server>>

\* A plausible slip: the transport is started where it is created, before
\* the pre-parameters are looked at.
NewTssNewCommunicationStarts ==
    /\ ntPc = "newComm"
    /\ UNCHANGED <<msgVars, joinVars, lifeVars, lockVars, extVars>>
    /\ \/ /\ NewTssFails("fail to create communication layer")
          /\ UNCHANGED <<comm, commPeers>>
       \/ /\ comm' = "started"
          /\ commPeers' = bootstrapPeers
          /\ ntPc' = "preParams"
          /\ UNCHANGED ntErr
    /\ UNCHANGED <<cmdBootstrapPeers, preParamsGiven, preParams, generated,
                   savedErr, savedPeers, bootstrapPeers, pcoord, notifier,
                   server>>

\* comm, err := p2p.NewCommunication(rendezvous, bootstrapPeers, ...)
NewTssNewCommunication ==
    /\ ntPc = "newComm"
    /\ UNCHANGED <<msgVars, joinVars, lifeVars, lockVars, extVars>>
    /\ \/ /\ NewTssFails("fail to create communication layer")
          /\ UNCHANGED <<comm, commPeers>>
       \/ /\ comm' = "created"
          /\ commPeers' = bootstrapPeers
          /\ ntPc' = "preParams"
          /\ UNCHANGED ntErr
    /\ UNCHANGED <<cmdBootstrapPeers, preParamsGiven, preParams, generated,
                   savedErr, savedPeers, bootstrapPeers, pcoord, notifier,
                   server>>

\* A plausible slip: only missing pre-parameters are generated.
NewTssPreParamsOnlyNil ==
    /\ ntPc = "preParams"
    /\ UNCHANGED <<msgVars, joinVars, lifeVars, lockVars, extVars>>
    /\ IF preParams = "nil"
       THEN /\ generated' = TRUE
            /\ \/ NewTssFails("fail to generate pre parameters") /\ UNCHANGED preParams
               \/ /\ preParams' \in {"valid", "invalid"}
                  /\ ntPc' = "validate"
                  /\ UNCHANGED ntErr
       ELSE /\ ntPc' = "validate"
            /\ UNCHANGED <<preParams, generated, ntErr>>
    /\ UNCHANGED <<cmdBootstrapPeers, preParamsGiven, savedErr, savedPeers,
                   bootstrapPeers, commPeers, comm, pcoord, notifier, server>>

\* if preParams == nil || !preParams.Validate() {
\*     preParams, err = bkeygen.GeneratePreParams(conf.PreParamTimeout) ... }
NewTssPreParams ==
    /\ ntPc = "preParams"
    /\ UNCHANGED <<msgVars, joinVars, lifeVars, lockVars, extVars>>
    /\ IF preParams = "nil" \/ ~Validate(preParams)
       THEN /\ generated' = TRUE
            /\ \/ NewTssFails("fail to generate pre parameters") /\ UNCHANGED preParams
               \/ /\ preParams' \in {"valid", "invalid"}
                  /\ ntPc' = "validate"
                  /\ UNCHANGED ntErr
       ELSE /\ ntPc' = "validate"
            /\ UNCHANGED <<preParams, generated, ntErr>>
    /\ UNCHANGED <<cmdBootstrapPeers, preParamsGiven, savedErr, savedPeers,
                   bootstrapPeers, commPeers, comm, pcoord, notifier, server>>

\* A plausible slip: the second Validate() is left out.
NewTssValidateSkipped ==
    /\ ntPc = "validate"
    /\ UNCHANGED <<msgVars, joinVars, lifeVars, lockVars, extVars>>
    /\ ntPc' = "priKey"
    /\ UNCHANGED <<cmdBootstrapPeers, preParamsGiven, preParams, generated,
                   savedErr, savedPeers, bootstrapPeers, commPeers, ntErr,
                   comm, pcoord, notifier, server>>

\* if !preParams.Validate() { return nil, errors.New("invalid preparams") }
NewTssValidate ==
    /\ ntPc = "validate"
    /\ UNCHANGED <<msgVars, joinVars, lifeVars, lockVars, extVars>>
    /\ IF ~Validate(preParams)
       THEN NewTssFails("invalid preparams")
       ELSE ntPc' = "priKey" /\ UNCHANGED ntErr
    /\ UNCHANGED <<cmdBootstrapPeers, preParamsGiven, preParams, generated,
                   savedErr, savedPeers, bootstrapPeers, commPeers, comm,
                   pcoord, notifier, server>>

\* priKeyRawBytes, err := conversion.GetPriKeyRawBytes(priKey)
NewTssPriKey ==
    /\ ntPc = "priKey"
    /\ UNCHANGED <<msgVars, joinVars, lifeVars, lockVars, extVars>>
    /\ \/ NewTssFails("fail to get private key")
       \/ ntPc' = "commStart" /\ UNCHANGED ntErr
    /\ UNCHANGED <<cmdBootstrapPeers, preParamsGiven, preParams, generated,
                   savedErr, savedPeers, bootstrapPeers, commPeers, comm,
                   pcoord, notifier, server>>

\* if err := comm.Start(priKeyRawBytes); nil != err { ... }
NewTssCommStart ==
    /\ ntPc = "commStart"
    /\ UNCHANGED <<msgVars, joinVars, lifeVars, lockVars, extVars>>
    /\ \/ NewTssFails("fail to start p2p network") /\ UNCHANGED comm
       \/ /\ comm' = "started"
          /\ ntPc' = "build"
          /\ UNCHANGED ntErr
    /\ UNCHANGED <<cmdBootstrapPeers, preParamsGiven, preParams, generated,
                   savedErr, savedPeers, bootstrapPeers, commPeers, pcoord,
                   notifier, server>>

\* The TssServer literal NewTss returns.
ConstructedServer(pp) ==
    [constructed |-> TRUE, conf |-> "conf", localNodePubKey |-> "pubKey",
     preParams |-> pp, tssKeyGenLocker |-> "unlocked", stopChan |-> "open",
     joinPartyChan |-> "nil", stateManager |-> "stateManager",
     privateKey |-> "priKey", tssMetrics |-> "metrics"]

\* pc := p2p.NewPartyCoordinator(...); sn := keysign.NewSignatureNotifier(...);
\* tssServer := TssServer{...}; return &tssServer, nil.  The parameters and
\* the local variables of NewTss end with the call, and the record of what
\* NewCommunication was given is dropped with them.
NewTssBuild ==
    /\ ntPc = "build"
    /\ UNCHANGED <<msgVars, joinVars, lifeVars, lockVars, extVars>>
    /\ pcoord' = "running"
    /\ notifier' = "created"
    /\ server' = ConstructedServer(preParams)
    /\ ntPc' = "returned"
    /\ cmdBootstrapPeers' = <<>>
    /\ savedPeers' = <<>>
    /\ bootstrapPeers' = <<>>
    /\ commPeers' = <<>>
    /\ preParams' = "nil"
    /\ UNCHANGED <<preParamsGiven, generated, savedErr, ntErr, comm>>

NewTss ==
    \/ NewTssMarshalPubKey
    \/ NewTssStateMgr
    \/ NewTssRetrieve
    \/ NewTssNewCommunication
    \/ NewTssPreParams
    \/ NewTssValidate
    \/ NewTssPriKey
    \/ NewTssCommStart
    \/ NewTssBuild

\* ------------------------------------------------- the server's lifetime

\* The number of Start calls.
MaxStartCalls == 2
\* The tasks that wait on the server's stop signal.
MaxWaiters == 2
\* The concurrent Keygen requests.
MaxKeygens == 2
\* The concurrent KeySign requests.
MaxKeysigns == 2

Waiters == 1..MaxWaiters
KeygenCalls == 1..MaxKeygens
KeysignCalls == 1..MaxKeysigns

\* What NewTss leaves unchanged once it has returned, but for the transport,
\* the party coordinator and the server.
builtVars ==
    <<ntPc, cmdBootstrapPeers, preParamsGiven, preParams, generated, savedErr,
      savedPeers, bootstrapPeers, commPeers, ntErr, notifier>>

\* The server exists and its process is alive.
Serving == server.constructed /\ ~panicked

\* A plausible slip: Start starts the transport again.
StartRestartsTransport ==
    /\ Serving
    /\ startCalls < MaxStartCalls
    /\ startCalls' = startCalls + 1
    /\ startRet' = "nil"
    /\ lastStartAt' = stopPc
    /\ comm' = "started"
    /\ UNCHANGED <<stopPc, panicked, waitPc, builtVars, pcoord, server>>
    /\ UNCHANGED <<msgVars, joinVars, lockVars, extVars>>

\* func (t *TssServer) Start() error: logs and returns nil.
Start ==
    /\ Serving
    /\ startCalls < MaxStartCalls
    /\ startCalls' = startCalls + 1
    /\ startRet' = "nil"
    /\ lastStartAt' = stopPc
    /\ UNCHANGED <<stopPc, panicked, waitPc, newTssVars>>
    /\ UNCHANGED <<msgVars, joinVars, lockVars, extVars>>

\* Stop, first statement: close(t.stopChan).  Closing a closed channel
\* panics.
StopClose ==
    /\ Serving
    /\ stopPc \in {"idle", "returned"}
    /\ IF server.stopChan = "closed"
       THEN /\ panicked' = TRUE
            /\ UNCHANGED <<server, stopPc>>
       ELSE /\ server' = [server EXCEPT !.stopChan = "closed"]
            /\ stopPc' = "p2p"
            /\ UNCHANGED panicked
    /\ UNCHANGED <<startCalls, startRet, lastStartAt, waitPc, builtVars, comm,
                   pcoord>>
    /\ UNCHANGED <<msgVars, joinVars, lockVars, extVars>>

\* A plausible slip: Stop returns when the transport cannot be stopped.
StopP2PReturnsOnError ==
    /\ Serving
    /\ stopPc = "p2p"
    /\ \/ comm' = "stopped" /\ stopPc' = "coordinator"
       \/ comm' = "stopFailed" /\ stopPc' = "returned"
    /\ UNCHANGED <<startCalls, startRet, lastStartAt, panicked, waitPc,
                   builtVars, pcoord, server>>
    /\ UNCHANGED <<msgVars, joinVars, lockVars, extVars>>

\* Stop, second statement: err := t.p2pCommunication.Stop(); an error is
\* logged and Stop goes on.
StopP2P ==
    /\ Serving
    /\ stopPc = "p2p"
    /\ comm' \in {"stopped", "stopFailed"}
    /\ stopPc' = "coordinator"
    /\ UNCHANGED <<startCalls, startRet, lastStartAt, panicked, waitPc,
                   builtVars, pcoord, server>>
    /\ UNCHANGED <<msgVars, joinVars, lockVars, extVars>>

\* Stop, third statement: t.partyCoordinator.Stop(); then Stop returns.
StopCoordinator ==
    /\ Serving
    /\ stopPc = "coordinator"
    /\ pcoord' = "stopped"
    /\ stopPc' = "returned"
    /\ UNCHANGED <<startCalls, startRet, lastStartAt, panicked, waitPc,
                   builtVars, comm, server>>
    /\ UNCHANGED <<msgVars, joinVars, lockVars, extVars>>

\* A task starts to wait on the stop signal: <-t.stopChan.
WaitStop(w) ==
    /\ Serving
    /\ waitPc[w] = "idle"
    /\ waitPc' = [waitPc EXCEPT ![w] = "waiting"]
    /\ UNCHANGED <<startCalls, startRet, lastStartAt, stopPc, panicked,
                   newTssVars>>
    /\ UNCHANGED <<msgVars, joinVars, lockVars, extVars>>

\* A receive from a closed channel returns: the waiting task goes on.
StopSignalled(w) ==
    /\ Serving
    /\ waitPc[w] = "waiting"
    /\ server.stopChan = "closed"
    /\ waitPc' = [waitPc EXCEPT ![w] = "released"]
    /\ UNCHANGED <<startCalls, startRet, lastStartAt, stopPc, panicked,
                   newTssVars>>
    /\ UNCHANGED <<msgVars, joinVars, lockVars, extVars>>

Stop == StopClose \/ StopP2P \/ StopCoordinator

StopWaiters == \E w \in Waiters : WaitStop(w) \/ StopSignalled(w)

\* ------------------------------------------------------- the keygen lock

\* sync.Mutex: Lock() goes through only while nobody holds the mutex.
MutexFree(locker) == locker = "unlocked"

\* A Keygen request arrives and reaches t.tssKeyGenLocker.Lock().
KeygenCall(k) ==
    /\ Serving
    /\ keygenPc[k] = "idle"
    /\ keygenPc' = [keygenPc EXCEPT ![k] = "locking"]
    /\ UNCHANGED <<keysignPc, overlapped>>
    /\ UNCHANGED <<msgVars, joinVars, newTssVars, lifeVars, extVars>>

\* Lock() returns, once nobody holds the mutex, and the keygen run starts.
KeygenLock(k) ==
    /\ Serving
    /\ keygenPc[k] = "locking"
    /\ MutexFree(server.tssKeyGenLocker)
    /\ server' = [server EXCEPT !.tssKeyGenLocker = "locked"]
    /\ keygenPc' = [keygenPc EXCEPT ![k] = "running"]
    /\ UNCHANGED <<keysignPc, overlapped, builtVars, comm, pcoord>>
    /\ UNCHANGED <<msgVars, joinVars, lifeVars, extVars>>

\* The keygen run ends: defer t.tssKeyGenLocker.Unlock().
KeygenUnlock(k) ==
    /\ Serving
    /\ keygenPc[k] = "running"
    /\ server' = [server EXCEPT !.tssKeyGenLocker = "unlocked"]
    /\ keygenPc' = [keygenPc EXCEPT ![k] = "idle"]
    /\ UNCHANGED <<keysignPc, overlapped, builtVars, comm, pcoord>>
    /\ UNCHANGED <<msgVars, joinVars, lifeVars, extVars>>

\* A KeySign request arrives.
KeysignCall(k) ==
    /\ Serving
    /\ keysignPc[k] = "idle"
    /\ keysignPc' = [keysignPc EXCEPT ![k] = "entering"]
    /\ UNCHANGED <<keygenPc, overlapped>>
    /\ UNCHANGED <<msgVars, joinVars, newTssVars, lifeVars, extVars>>

\* The keysign run starts.  Keysign runs overlap each other, so a run does
\* not hold t.tssKeyGenLocker, the one lock the server has.
KeysignBegin(k) ==
    /\ Serving
    /\ keysignPc[k] = "entering"
    /\ keysignPc' = [keysignPc EXCEPT ![k] = "running"]
    /\ overlapped' = (overlapped \/ \E j \in KeysignCalls : keysignPc[j] = "running")
    /\ UNCHANGED keygenPc
    /\ UNCHANGED <<msgVars, joinVars, newTssVars, lifeVars, extVars>>

\* The keysign run ends.
KeysignEnd(k) ==
    /\ Serving
    /\ keysignPc[k] = "running"
    /\ keysignPc' = [keysignPc EXCEPT ![k] = "idle"]
    /\ UNCHANGED <<keygenPc, overlapped>>
    /\ UNCHANGED <<msgVars, joinVars, newTssVars, lifeVars, extVars>>

Keygen == \E k \in KeygenCalls : KeygenCall(k) \/ KeygenLock(k) \/ KeygenUnlock(k)

KeySign == \E k \in KeysignCalls : KeysignCall(k) \/ KeysignBegin(k) \/ KeysignEnd(k)

\* ------------------------------------------------- leaderless join-party

\* The largest party that runs a join-party round.
MaxPartyPeers == 3

\* The peer id of the i-th participant: "p1", "p2", ...
PeerIdOf(i) == <<112, 48 + i>>
PartyPeers(n) == { PeerIdOf(i) : i \in 1..n }

NoRetryReturn == [onlines |-> {}, leader |-> "", err |-> "none"]

\* No leaderless round is under way.
RetryIdle ==
    /\ rtPeers = {}
    /\ rtThreshold = 0
    /\ rtQuorum = 0
    /\ rtLive = {}
    /\ rtGot = <<>>
    /\ rtStatus = <<>>
    /\ rtRet = <<>>

\* A session of n participants, some of them up, each about to call
\* joinParty with an older version and the session's threshold.  The
\* coordinator is given the session id and the peer list and no threshold:
\* the number of peers it waits for is one it takes from the list, any
\* number from one to the length of the list.
RetryInit ==
    \E n \in 1..MaxPartyPeers, t \in 0..MaxThreshold, q \in 1..MaxPartyPeers :
        /\ t + 1 <= n
        /\ q <= n
        /\ rtPeers = PartyPeers(n)
        /\ rtThreshold = t
        /\ rtQuorum = q
        /\ rtLive \in (SUBSET PartyPeers(n)) \ {{}}
        /\ rtGot = [p \in PartyPeers(n) |-> {}]
        /\ rtStatus = [p \in PartyPeers(n) |-> "idle"]
        /\ rtRet = [p \in PartyPeers(n) |-> NoRetryReturn]

\* What a peer makes of the intents it holds: the party is formed once it
\* has heard from as many peers as the coordinator waits for, or it goes on
\* waiting.
RetryDecide(got) ==
    IF Cardinality(got) >= rtQuorum THEN "formed" ELSE "joining"

\* joinParty of peer p, with participant keys that all convert, calls
\* t.partyCoordinator.JoinPartyWithRetry(msgID, peersIDStr): the peer counts
\* its own intent and starts broadcasting.
RetryJoin(p) ==
    /\ p \in rtLive
    /\ rtStatus[p] = "idle"
    /\ rtGot' = [rtGot EXCEPT ![p] = {p}]
    /\ rtStatus' = [rtStatus EXCEPT ![p] = RetryDecide({p})]
    /\ UNCHANGED <<rtPeers, rtThreshold, rtQuorum, rtLive, rtRet>>
    /\ UNCHANGED <<serverVars, leaderVars, sessVars, kgVars, notifyVars,
                 writeVars, mockVars>>

\* An intent broadcast by peer p reaches peer q, which is still waiting.
\* Intents of peers outside the participant list are ignored, and an intent
\* q already holds changes nothing.
RetryIntent(p, q) ==
    /\ p \in rtLive /\ q \in rtLive
    /\ p # q
    /\ rtStatus[p] \in {"joining", "formed"}
    /\ rtStatus[q] = "joining"
    /\ p \in rtPeers
    /\ p \notin rtGot[q]
    /\ rtGot' = [rtGot EXCEPT ![q] = @ \cup {p}]
    /\ rtStatus' = [rtStatus EXCEPT ![q] = RetryDecide(rtGot[q] \cup {p})]
    /\ UNCHANGED <<rtPeers, rtThreshold, rtQuorum, rtLive, rtRet>>
    /\ UNCHANGED <<serverVars, leaderVars, sessVars, kgVars, notifyVars,
                 writeVars, mockVars>>

\* PartyTimeout runs out for a peer that is still waiting.
RetryTimeout(p) ==
    /\ p \in rtLive
    /\ rtStatus[p] = "joining"
    /\ rtStatus' = [rtStatus EXCEPT ![p] = "timeout"]
    /\ UNCHANGED <<rtPeers, rtThreshold, rtQuorum, rtLive, rtGot, rtRet>>
    /\ UNCHANGED <<serverVars, leaderVars, sessVars, kgVars, notifyVars,
                 writeVars, mockVars>>

\* What JoinPartyWithRetry hands back to joinParty of peer p.
JoinPartyWithRetryResult(p) ==
    [onlines |-> rtGot[p],
     err |-> IF rtStatus[p] = "formed" THEN "nil" ELSE "join party timeout"]

\* joinParty of peer p returns what JoinPartyWithRetry handed back:
\* return onlines, "NONE", err.
JoinPartyRetryReturn(p) ==
    /\ p \in rtLive
    /\ rtStatus[p] \in {"formed", "timeout"}
    /\ rtRet[p].err = "none"
    /\ rtRet' = [rtRet EXCEPT ![p] =
                    [onlines |-> JoinPartyWithRetryResult(p).onlines,
                     leader |-> "NONE",
                     err |-> JoinPartyWithRetryResult(p).err]]
    /\ UNCHANGED <<rtPeers, rtThreshold, rtQuorum, rtLive, rtGot, rtStatus>>
    /\ UNCHANGED <<serverVars, leaderVars, sessVars, kgVars, notifyVars,
                 writeVars, mockVars>>

RetryJoins == \E p \in rtPeers : RetryJoin(p)
RetryIntents == \E p \in rtPeers, q \in rtPeers : RetryIntent(p, q)
RetryTimeouts == \E p \in rtPeers : RetryTimeout(p)
JoinPartyRetryReturns == \E p \in rtPeers : JoinPartyRetryReturn(p)

\* ----------------------------------------------- leader-based join-party

\* The ways the digests of (peer id, session id, block height) can rank the
\* peers of a party: every node computes the same ranking.
DigestRankings(peers) ==
    { r \in [peers -> 1..Cardinality(peers)] :
        \A p \in peers, q \in peers : p # q => r[p] # r[q] }

\* The leader: the peer with the smallest digest.
LeaderOf(peers, digest) ==
    CHOOSE p \in peers : \A q \in peers : digest[p] <= digest[q]

\* The smallest peer id of a set, in lexicographic order.
MinPeer(S) == CHOOSE p \in S : \A q \in S \ {p} : StrLess(p, q)

\* The peer ids of a set in the order the requests happened to arrive:
\* any order.
ArrivalOrders(S) ==
    { s \in [1..Cardinality(S) -> S] :
        \A i \in 1..Cardinality(S), j \in 1..Cardinality(S) :
            i # j => s[i] # s[j] }

\* The first k peer ids of a set in lexicographic order.
RECURSIVE FirstLexicographic(_, _)
FirstLexicographic(S, k) ==
    IF k = 0 \/ S = {} THEN <<>>
    ELSE <<MinPeer(S)>> \o FirstLexicographic(S \ {MinPeer(S)}, k - 1)

NoLeaderReturn == [onlines |-> <<>>, leader |-> <<>>, err |-> "none"]

\* No leader-based round is under way.
LeaderIdle ==
    /\ ldPeers = {}
    /\ ldThreshold = 0
    /\ ldLive = {}
    /\ ldDigest = <<>>
    /\ ldSent = {}
    /\ ldRequesters = {}
    /\ ldSelected = <<>>
    /\ ldAtSelection = {}
    /\ ldStatus = <<>>
    /\ ldChosen = <<>>
    /\ ldRet = <<>>

\* A session of n participants, some of them up, each about to call
\* joinParty with a current version.
LeaderInit ==
    \E n \in 1..MaxPartyPeers, t \in 0..MaxThreshold :
        /\ t + 1 <= n
        /\ ldPeers = PartyPeers(n)
        /\ ldThreshold = t
        /\ ldLive \in (SUBSET PartyPeers(n)) \ {{}}
        /\ ldDigest \in DigestRankings(PartyPeers(n))
        /\ ldSent = {}
        /\ ldRequesters = {}
        /\ ldSelected = <<>>
        /\ ldAtSelection = {}
        /\ ldStatus = [p \in PartyPeers(n) |-> "idle"]
        /\ ldChosen = [p \in PartyPeers(n) |-> <<>>]
        /\ ldRet = [p \in PartyPeers(n) |-> NoLeaderReturn]

Leader == LeaderOf(ldPeers, ldDigest)

\* joinParty of the leader reaches JoinPartyWithLeader: the leader counts
\* itself among the requesters and waits.
LeaderJoin ==
    /\ Leader \in ldLive
    /\ ldStatus[Leader] = "idle"
    /\ ldStatus' = [ldStatus EXCEPT ![Leader] = "waiting"]
    /\ ldRequesters' = ldRequesters \cup {Leader}
    /\ UNCHANGED <<ldPeers, ldThreshold, ldLive, ldDigest, ldSent, ldSelected,
                   ldAtSelection, ldChosen, ldRet>>
    /\ UNCHANGED <<serverVars, retryVars, sessVars, kgVars, notifyVars,
                 writeVars, mockVars>>

\* joinParty of a follower reaches JoinPartyWithLeader: the follower sends
\* its JoinPartyLeaderRequest to the leader and waits.
FollowerRequest(p) ==
    /\ p \in ldLive
    /\ p # Leader
    /\ ldStatus[p] = "idle"
    /\ ldStatus' = [ldStatus EXCEPT ![p] = "waiting"]
    /\ ldSent' = ldSent \cup {p}
    /\ UNCHANGED <<ldPeers, ldThreshold, ldLive, ldDigest, ldRequesters,
                   ldSelected, ldAtSelection, ldChosen, ldRet>>
    /\ UNCHANGED <<serverVars, retryVars, sessVars, kgVars, notifyVars,
                 writeVars, mockVars>>

\* The waiting leader receives the request of p; a request of a peer it
\* already counts changes nothing, and requests of peers outside the
\* participant list are ignored.
LeaderReceive(p) ==
    /\ Leader \in ldLive
    /\ ldStatus[Leader] = "waiting"
    /\ p \in ldSent
    /\ p \in ldPeers
    /\ p \notin ldRequesters
    /\ ldRequesters' = ldRequesters \cup {p}
    /\ UNCHANGED <<ldPeers, ldThreshold, ldLive, ldDigest, ldSent, ldSelected,
                   ldAtSelection, ldStatus, ldChosen, ldRet>>
    /\ UNCHANGED <<serverVars, retryVars, sessVars, kgVars, notifyVars,
                 writeVars, mockVars>>

\* A plausible slip: the leader takes the requesters in the order their
\* requests arrived.
LeaderSelectionUnsorted(requesters, k) ==
    { SubSeq(s, 1, k) : s \in ArrivalOrders(requesters) }

\* The lists the leader may select from the requesters it has.
LeaderSelection(requesters, k) == { FirstLexicographic(requesters, k) }

\* The leader has threshold+1 requesters: it selects chosen_peers and
\* broadcasts the list.
LeaderSelect ==
    /\ Leader \in ldLive
    /\ ldStatus[Leader] = "waiting"
    /\ Cardinality(ldRequesters) >= ldThreshold + 1
    /\ ldSelected' \in LeaderSelection(ldRequesters, ldThreshold + 1)
    /\ ldAtSelection' = ldRequesters
    /\ ldChosen' = [ldChosen EXCEPT ![Leader] = ldSelected']
    /\ ldStatus' = [ldStatus EXCEPT ![Leader] = "done"]
    /\ UNCHANGED <<ldPeers, ldThreshold, ldLive, ldDigest, ldSent, ldRequesters,
                   ldRet>>
    /\ UNCHANGED <<serverVars, retryVars, sessVars, kgVars, notifyVars,
                 writeVars, mockVars>>

\* PartyTimeout runs out at the leader with fewer than threshold+1
\* requesters: tss_timeout.
LeaderTimeout ==
    /\ Leader \in ldLive
    /\ ldStatus[Leader] = "waiting"
    /\ Cardinality(ldRequesters) < ldThreshold + 1
    /\ ldStatus' = [ldStatus EXCEPT ![Leader] = "tss_timeout"]
    /\ UNCHANGED <<ldPeers, ldThreshold, ldLive, ldDigest, ldSent, ldRequesters,
                   ldSelected, ldAtSelection, ldChosen, ldRet>>
    /\ UNCHANGED <<serverVars, retryVars, sessVars, kgVars, notifyVars,
                 writeVars, mockVars>>

\* A waiting follower receives the leader's broadcast and adopts the list.
FollowerAdopt(p) ==
    /\ p \in ldLive
    /\ p # Leader
    /\ ldStatus[p] = "waiting"
    /\ ldSelected # <<>>
    /\ ldChosen' = [ldChosen EXCEPT ![p] = ldSelected]
    /\ ldStatus' = [ldStatus EXCEPT ![p] = "done"]
    /\ UNCHANGED <<ldPeers, ldThreshold, ldLive, ldDigest, ldSent, ldRequesters,
                   ldSelected, ldAtSelection, ldRet>>
    /\ UNCHANGED <<serverVars, retryVars, sessVars, kgVars, notifyVars,
                 writeVars, mockVars>>

\* PartyTimeout runs out at a follower that has heard nothing from the
\* leader: leader_did_not_respond.
FollowerTimeout(p) ==
    /\ p \in ldLive
    /\ p # Leader
    /\ ldStatus[p] = "waiting"
    /\ ldStatus' = [ldStatus EXCEPT ![p] = "leader_did_not_respond"]
    /\ UNCHANGED <<ldPeers, ldThreshold, ldLive, ldDigest, ldSent, ldRequesters,
                   ldSelected, ldAtSelection, ldChosen, ldRet>>
    /\ UNCHANGED <<serverVars, retryVars, sessVars, kgVars, notifyVars,
                 writeVars, mockVars>>

\* What JoinPartyWithLeader hands back to joinParty of peer p.
JoinPartyWithLeaderResult(p) ==
    [onlines |-> ldChosen[p], leader |-> Leader,
     err |-> IF ldStatus[p] = "done" THEN "nil" ELSE ldStatus[p]]

\* A plausible slip: joinParty answers with the participants it was given,
\* in lexicographic order, instead of the coordinator's list.
JoinPartyLeaderReturnsParticipants(p) ==
    /\ p \in ldLive
    /\ ldStatus[p] \notin {"idle", "waiting"}
    /\ ldRet[p].err = "none"
    /\ ldRet' = [ldRet EXCEPT ![p] =
                    [onlines |-> FirstLexicographic(ldPeers, Cardinality(ldPeers)),
                     leader |-> JoinPartyWithLeaderResult(p).leader,
                     err |-> JoinPartyWithLeaderResult(p).err]]
    /\ UNCHANGED <<ldPeers, ldThreshold, ldLive, ldDigest, ldSent, ldRequesters,
                   ldSelected, ldAtSelection, ldStatus, ldChosen>>
    /\ UNCHANGED <<serverVars, retryVars, sessVars, kgVars, notifyVars,
                 writeVars, mockVars>>

\* joinParty of peer p returns what JoinPartyWithLeader handed back.
JoinPartyLeaderReturn(p) ==
    /\ p \in ldLive
    /\ ldStatus[p] \notin {"idle", "waiting"}
    /\ ldRet[p].err = "none"
    /\ ldRet' = [ldRet EXCEPT ![p] = JoinPartyWithLeaderResult(p)]
    /\ UNCHANGED <<ldPeers, ldThreshold, ldLive, ldDigest, ldSent, ldRequesters,
                   ldSelected, ldAtSelection, ldStatus, ldChosen>>
    /\ UNCHANGED <<serverVars, retryVars, sessVars, kgVars, notifyVars,
                 writeVars, mockVars>>

FollowerRequests == \E p \in ldPeers : FollowerRequest(p)
LeaderReceives == \E p \in ldPeers : LeaderReceive(p)
FollowerAdopts == \E p \in ldPeers : FollowerAdopt(p)
FollowerTimeouts == \E p \in ldPeers : FollowerTimeout(p)
JoinPartyLeaderReturns == \E p \in ldPeers : JoinPartyLeaderReturn(p)

\* ---------------------------------------------------------- session engine

\* The number of sessions alive at the same time.
MaxSessions == 2

Sessions == 1..MaxSessions

\* The task that owns session s.
EngineOf(s) == <<"engine", s>>

\* What the other tasks tell the engine of a session: the coordinator
\* (formed, joinTimeout), the MPC party (end, error) and the session timer
\* (protocolTimeout).
SessionEvents == {"formed", "joinTimeout", "end", "error", "protocolTimeout"}

\* No session exists.
SessionIdle ==
    /\ ssState = [s \in Sessions |-> "none"]
    /\ ssInbox = [s \in Sessions |-> <<>>]
    /\ ssEmitted = [s \in Sessions |-> {}]
    /\ ssWriters = [s \in Sessions |-> {}]

\* A request enters: the engine of the session creates it in NEW.
SessionRequest(s) ==
    /\ ssState[s] = "none"
    /\ ssState' = [ssState EXCEPT ![s] = "NEW"]
    /\ ssWriters' = [ssWriters EXCEPT ![s] = @ \cup {EngineOf(s)}]
    /\ UNCHANGED <<ssInbox, ssEmitted>>
    /\ UNCHANGED <<serverVars, retryVars, leaderVars, kgVars, notifyVars,
                 writeVars, mockVars>>

\* The engine asks the coordinator to form the party.
SessionStartJoin(s) ==
    /\ ssState[s] = "NEW"
    /\ ssState' = [ssState EXCEPT ![s] = "JOINING"]
    /\ ssWriters' = [ssWriters EXCEPT ![s] = @ \cup {EngineOf(s)}]
    /\ UNCHANGED <<ssInbox, ssEmitted>>
    /\ UNCHANGED <<serverVars, retryVars, leaderVars, kgVars, notifyVars,
                 writeVars, mockVars>>

\* The coordinator answers the engine, once: the party is formed, or
\* join-party timed out.
CoordinatorAnswers(s, e) ==
    /\ e \in {"formed", "joinTimeout"}
    /\ ssState[s] = "JOINING"
    /\ ssEmitted[s] \cap {"formed", "joinTimeout"} = {}
    /\ ssInbox' = [ssInbox EXCEPT ![s] = Append(@, e)]
    /\ ssEmitted' = [ssEmitted EXCEPT ![s] = @ \cup {e}]
    /\ UNCHANGED <<ssState, ssWriters>>
    /\ UNCHANGED <<serverVars, retryVars, leaderVars, kgVars, notifyVars,
                 writeVars, mockVars>>

\* The MPC party of a started run fires its end channel or its error
\* channel, or the session timer runs out; each at most once, at any time
\* after the run has started.
RunEmits(s, e) ==
    /\ e \in {"end", "error", "protocolTimeout"}
    /\ ssState[s] \in {"RUNNING", "DONE", "FAILED"}
    /\ e \notin ssEmitted[s]
    /\ ssInbox' = [ssInbox EXCEPT ![s] = Append(@, e)]
    /\ ssEmitted' = [ssEmitted EXCEPT ![s] = @ \cup {e}]
    /\ UNCHANGED <<ssState, ssWriters>>
    /\ UNCHANGED <<serverVars, retryVars, leaderVars, kgVars, notifyVars,
                 writeVars, mockVars>>

\* A plausible slip: the timer's event is acted on whatever state the
\* session is in.
SessionStepTimerUnguarded(state, e) ==
    IF e = "protocolTimeout" THEN "FAILED"
    ELSE IF state = "JOINING" /\ e = "formed" THEN "RUNNING"
    ELSE IF state = "JOINING" /\ e = "joinTimeout" THEN "TIMEOUT"
    ELSE IF state = "RUNNING" /\ e = "end" THEN "DONE"
    ELSE IF state = "RUNNING" /\ e = "error" THEN "FAILED"
    ELSE state

\* The state the engine moves a session to on an event; an event that does
\* not belong to the session's state is dropped.
SessionStep(state, e) ==
    IF state = "JOINING" /\ e = "formed" THEN "RUNNING"
    ELSE IF state = "JOINING" /\ e = "joinTimeout" THEN "TIMEOUT"
    ELSE IF state = "RUNNING" /\ e = "end" THEN "DONE"
    ELSE IF state = "RUNNING" /\ e \in {"error", "protocolTimeout"} THEN "FAILED"
    ELSE state

\* The engine of session s takes the next event of its queue.
EngineHandle(s) ==
    /\ Len(ssInbox[s]) > 0
    /\ ssInbox' = [ssInbox EXCEPT ![s] = Tail(@)]
    /\ ssState' = [ssState EXCEPT ![s] = SessionStep(@, Head(ssInbox[s]))]
    /\ ssWriters' =
          [ssWriters EXCEPT ![s] =
              IF SessionStep(ssState[s], Head(ssInbox[s])) # ssState[s]
              THEN @ \cup {EngineOf(s)} ELSE @]
    /\ UNCHANGED ssEmitted
    /\ UNCHANGED <<serverVars, retryVars, leaderVars, kgVars, notifyVars,
                 writeVars, mockVars>>

SessionRequests == \E s \in Sessions : SessionRequest(s)
SessionStartJoins == \E s \in Sessions : SessionStartJoin(s)
CoordinatorAnswer == \E s \in Sessions, e \in SessionEvents : CoordinatorAnswers(s, e)
RunEmit == \E s \in Sessions, e \in SessionEvents : RunEmits(s, e)
EngineHandles == \E s \in Sessions : EngineHandle(s)

\* --------------------------------------------------- runKeyGen (benchgen)

\* The fewest parties of a run: main leaves unless parties >= quorum > 1.
MinParties == 2
\* The largest number of parties, n, runKeyGen is run with.
MaxParties == 2
\* The number of messages the parties emit in one run: one more than outCh
\* holds in a run of the fewest parties, so that a send finds outCh full.
MaxSends == MinParties + 1

\* The parties of the run: pIDs[i].Index = i.
Parties == 0..(kgN - 1)

NoMsg == [from |-> 0, seq |-> 0, bcast |-> FALSE, to |-> <<>>]

\* The messages party p may emit next: a broadcast (GetTo() == nil), or a
\* point-to-point message whose destinations are a party and the party
\* after it (the same party twice in a run of one).
PartyMsgs(p) ==
    { [from |-> p, seq |-> kgEmitted + 1, bcast |-> TRUE, to |-> <<>>] }
    \cup { [from |-> p, seq |-> kgEmitted + 1, bcast |-> FALSE,
            to |-> <<d, (d + 1) % kgN>>] : d \in Parties }

\* fmt.Sprintf("%s/keygen_data_%d.json", dir, partyIndex)
MakeKeyGenDataFilePath(dir, partyIndex) ==
    <<dir, "/keygen_data_", partyIndex, ".json">>

\* json.Marshal(&data)
JsonMarshal(data) == [json |-> data]

\* What a path of the data directory holds: nothing, a directory, or a
\* regular file with its bytes.
NoFile == [kind |-> "absent", bytes |-> [json |-> [index |-> -1]]]
Directory == [kind |-> "dir", bytes |-> [json |-> [index |-> -1]]]
RegularFile(bytes) == [kind |-> "file", bytes |-> bytes]

\* A plausible slip: the check for an existing file is left out, so every
\* call writes.
TryWriteKeyGenDataFileAlways(files, dir, index, data) ==
    LET fixtureFileName == MakeKeyGenDataFilePath(dir, index)
    IN  IF files[fixtureFileName].kind = "dir"
        THEN [files |-> files, panic |-> TRUE]
        ELSE [files |-> [files EXCEPT ![fixtureFileName] =
                            RegularFile(JsonMarshal(data))],
              panic |-> FALSE]

\* tryWriteKeyGenDataFile(dir, index, data) on the files of the data
\* directory.  A regular file is left as it is; otherwise the file is
\* opened for writing, which fails on a directory, and the JSON of the data
\* is written to it.
TryWriteKeyGenDataFile(files, dir, index, data) ==
    LET fixtureFileName == MakeKeyGenDataFilePath(dir, index)
    IN  IF files[fixtureFileName].kind = "file"
        THEN [files |-> files, panic |-> FALSE]
        ELSE IF files[fixtureFileName].kind = "dir"
        THEN [files |-> files, panic |-> TRUE]
        ELSE [files |-> [files EXCEPT ![fixtureFileName] =
                            RegularFile(JsonMarshal(data))],
              panic |-> FALSE]

NoSaveData == [index |-> -1, share |-> "none"]

\* What can go wrong inside a call: os.OpenFile, json.Marshal or fd.Write
\* returns an error.
WriteFaults == {"none", "open", "marshal", "write"}

\* A file that was opened with O_CREATE|O_TRUNC and not written to the end.
TruncatedFile == RegularFile([json |-> NoSaveData])

\* tryWriteKeyGenDataFile(dir, index, data) with the errors the operating
\* system and json.Marshal may return: each of them panics, os.OpenFile
\* before the file is touched, the other two after it was created empty.
TryWriteWithFaults(files, dir, index, data, fault) ==
    LET fixtureFileName == MakeKeyGenDataFilePath(dir, index)
    IN  IF files[fixtureFileName].kind = "file" \/ fault = "none"
        THEN TryWriteKeyGenDataFile(files, dir, index, data)
        ELSE IF files[fixtureFileName].kind = "dir" \/ fault = "open"
        THEN [files |-> files, panic |-> TRUE]
        ELSE [files |-> [files EXCEPT ![fixtureFileName] = TruncatedFile],
              panic |-> TRUE]

\* The data directory main hands to runKeyGen.
DataDir == "datadir"

\* No keygen run is under way: runKeyGen has not been called and the
\* package variables hold their zero values.
KeyGenIdle ==
    /\ kgN = 0
    /\ kgPc = "none"
    /\ errCh = <<>>
    /\ outCh = <<>>
    /\ endCh = <<>>
    /\ kgParty = <<>>
    /\ kgPending = <<>>
    /\ kgBroken = {}
    /\ kgEmitted = 0
    /\ kgTasks = EmptyBag
    /\ ended = 0
    /\ receivedIncomingMsgs = 0
    /\ kgFiles = <<>>
    /\ kgCause = "none"

\* runKeyGen(dir, t, n) has made the channels and started the n parties;
\* main has just created the empty data directory.
KeyGenInit ==
    \E n \in MinParties..MaxParties :
        /\ kgN = n
        /\ kgPc = "select"
        /\ errCh = <<>>
        /\ outCh = <<>>
        /\ endCh = <<>>
        /\ kgParty = [p \in 0..(n - 1) |-> "started"]
        /\ kgPending = [p \in 0..(n - 1) |-> NoMsg]
        /\ kgBroken = {}
        /\ kgEmitted = 0
        /\ kgTasks = EmptyBag
        /\ ended = 0
        /\ receivedIncomingMsgs = -1
        /\ kgFiles = [f \in { MakeKeyGenDataFilePath(DataDir, i) : i \in 0..(n - 1) }
                        |-> NoFile]
        /\ kgCause = "none"

\* What every step of the run leaves alone.
notKeyGen ==
    <<serverVars, retryVars, leaderVars, sessVars, notifyVars, writeVars, mockVars>>

\* Party p sends a message on outCh (capacity n): the send goes through when
\* the channel has room and blocks the party otherwise.
PartyEmit(p, m) ==
    /\ kgPc = "select"
    /\ kgParty[p] \in {"started", "running"}
    /\ p \notin kgBroken
    /\ kgEmitted < MaxSends
    /\ kgEmitted' = kgEmitted + 1
    /\ IF Len(outCh) < kgN
       THEN /\ outCh' = Append(outCh, m)
            /\ kgParty' = [kgParty EXCEPT ![p] = "running"]
            /\ UNCHANGED kgPending
       ELSE /\ kgParty' = [kgParty EXCEPT ![p] = "blocked"]
            /\ kgPending' = [kgPending EXCEPT ![p] = m]
            /\ UNCHANGED outCh
    /\ UNCHANGED <<kgN, kgPc, errCh, endCh, kgBroken, kgTasks, ended, receivedIncomingMsgs, kgFiles, kgCause>>
    /\ UNCHANGED notKeyGen

\* The blocked send of party p goes through: outCh has room again.
PartyUnblock(p) ==
    /\ kgPc = "select"
    /\ kgParty[p] = "blocked"
    /\ Len(outCh) < kgN
    /\ outCh' = Append(outCh, kgPending[p])
    /\ kgParty' = [kgParty EXCEPT ![p] = "running"]
    /\ kgPending' = [kgPending EXCEPT ![p] = NoMsg]
    /\ UNCHANGED <<kgN, kgPc, errCh, endCh, kgBroken, kgEmitted, kgTasks,
                   ended, receivedIncomingMsgs, kgFiles, kgCause>>
    /\ UNCHANGED notKeyGen

\* The parties a message is addressed to.
AddressedTo(msg) ==
    IF msg.bcast THEN Parties \ {msg.from} ELSE {msg.to[1]}

\* A message or a delivery for party p is still under way.
Outstanding(p) ==
    \/ \E i \in 1..Len(outCh) : p \in AddressedTo(outCh[i])
    \/ \E q \in Parties : kgParty[q] = "blocked" /\ p \in AddressedTo(kgPending[q])
    \/ \E task \in BagToSet(kgTasks) : task.party = p

\* The save data party p ends with.
SaveData(p) == [index |-> p]

\* Party p finishes: it sends its save data on endCh (capacity n).  A party
\* finishes after the last round, when every message of the run has been
\* emitted and those addressed to it have been delivered.
PartyEnd(p) ==
    /\ kgPc = "select"
    /\ kgParty[p] \in {"started", "running"}
    /\ p \notin kgBroken
    /\ kgEmitted = MaxSends
    /\ ~Outstanding(p)
    /\ Len(endCh) < kgN
    /\ endCh' = Append(endCh, SaveData(p))
    /\ kgParty' = [kgParty EXCEPT ![p] = "ended"]
    /\ UNCHANGED <<kgN, kgPc, errCh, outCh, kgPending, kgBroken, kgEmitted,
                   kgTasks, ended, receivedIncomingMsgs, kgFiles,
                   kgCause>>
    /\ UNCHANGED notKeyGen

\* P.Start() of party p returns an error, which its task sends on errCh
\* (capacity n); the party takes no further part.
PartyStartFails(p) ==
    /\ kgPc = "select"
    /\ kgParty[p] = "started"
    /\ p \notin kgBroken
    /\ Len(errCh) < kgN
    /\ errCh' = Append(errCh, "error")
    /\ kgBroken' = kgBroken \cup {p}
    /\ UNCHANGED <<kgN, kgPc, outCh, endCh, kgParty, kgPending, kgEmitted,
                   kgTasks, ended, receivedIncomingMsgs, kgFiles,
                   kgCause>>
    /\ UNCHANGED notKeyGen

\* A delivery task runs updater(P, msg, errCh): the party's update for the
\* message is applied.
UpdaterApply(task) ==
    /\ kgPc = "select"
    /\ task \in BagToSet(kgTasks)
    /\ kgTasks' = kgTasks (-) SetToBag({task})
    /\ UNCHANGED <<kgN, kgPc, errCh, outCh, endCh, kgParty, kgPending,
                   kgBroken, kgEmitted, ended, receivedIncomingMsgs, kgFiles,
                   kgCause>>
    /\ UNCHANGED notKeyGen

\* A delivery task runs updater(P, msg, errCh) and the update returns an
\* error, which the task sends on errCh; the party takes no further part.
UpdaterFail(task) ==
    /\ kgPc = "select"
    /\ task \in BagToSet(kgTasks)
    /\ Len(errCh) < kgN
    /\ kgTasks' = kgTasks (-) SetToBag({task})
    /\ errCh' = Append(errCh, "error")
    /\ kgBroken' = kgBroken \cup {task.party}
    /\ UNCHANGED <<kgN, kgPc, outCh, endCh, kgParty, kgPending, kgEmitted,
                   ended, receivedIncomingMsgs, kgFiles, kgCause>>
    /\ UNCHANGED notKeyGen

\* case err := <-errCh: panic(err)
LoopErr ==
    /\ kgPc = "select"
    /\ Len(errCh) > 0
    /\ errCh' = Tail(errCh)
    /\ kgPc' = "panicked"
    /\ kgCause' = "error received"
    /\ UNCHANGED <<kgN, outCh, endCh, kgParty, kgPending, kgBroken, kgEmitted,
                   kgTasks, ended, receivedIncomingMsgs, kgFiles>>
    /\ UNCHANGED notKeyGen

\* A plausible slip: the loop over the parties lacks the `continue` that
\* skips the sender.
DeliveriesOfNoSkip(msg) ==
    IF msg.bcast
    THEN [i \in 1..kgN |-> [party |-> i - 1, msg |-> msg]]
    ELSE <<[party |-> msg.to[1], msg |-> msg]>>

\* The delivery tasks the loop starts for a message, in order: for a
\* broadcast one per party other than the sender, for a point-to-point
\* message one for parties[dest[0].Index].
DeliveriesOf(msg) ==
    IF msg.bcast
    THEN SelectSeq([i \in 1..kgN |-> [party |-> i - 1, msg |-> msg]],
                   LAMBDA d : d.party # msg.from)
    ELSE <<[party |-> msg.to[1], msg |-> msg]>>

\* A plausible slip: the loop calls updater itself instead of starting a
\* task for it.
LoopOutInline ==
    /\ kgPc = "select"
    /\ Len(outCh) > 0
    /\ outCh' = Tail(outCh)
    /\ LET msg == Head(outCh)
       IN  IF ~msg.bcast /\ msg.to[1] = msg.from
           THEN /\ kgPc' = "panicked"
                /\ kgCause' = "message to itself"
                /\ UNCHANGED receivedIncomingMsgs
           ELSE /\ receivedIncomingMsgs' = receivedIncomingMsgs + 1
                /\ UNCHANGED <<kgPc, kgCause>>
    /\ UNCHANGED <<kgN, errCh, endCh, kgParty, kgPending, kgBroken, kgEmitted,
                   kgTasks, ended, kgFiles>>
    /\ UNCHANGED notKeyGen

\* case msg := <-outCh: the message is routed, each delivery in a task of
\* its own (go updater(P, msg, errCh)); a point-to-point message to its own
\* sender panics.  Then incrementAndDisplayProgress().
LoopOut ==
    /\ kgPc = "select"
    /\ Len(outCh) > 0
    /\ outCh' = Tail(outCh)
    /\ LET msg == Head(outCh)
       IN  IF ~msg.bcast /\ msg.to[1] = msg.from
           THEN /\ kgPc' = "panicked"
                /\ kgCause' = "message to itself"
                /\ UNCHANGED <<kgTasks, receivedIncomingMsgs>>
           ELSE /\ kgTasks' = kgTasks (+) BagOf(DeliveriesOf(msg))
                /\ receivedIncomingMsgs' = receivedIncomingMsgs + 1
                /\ UNCHANGED <<kgPc, kgCause>>
    /\ UNCHANGED <<kgN, errCh, endCh, kgParty, kgPending, kgBroken, kgEmitted,
                   ended, kgFiles>>
    /\ UNCHANGED notKeyGen

\* A plausible slip: the loop ends with the first save result.
KeyGenFinishedAtFirst(count, n) == count >= 1

\* atomic.LoadInt32(&ended) == int32(len(pIDs))
KeyGenFinished(count, n) == count = n

\* case save := <-endCh: the party's index is recovered (indexErr: the error
\* of save.OriginalIndex()), its data written with tryWriteKeyGenDataFile
\* (fault: the error of os.OpenFile, json.Marshal or fd.Write, each of
\* which panics inside the call; os.OpenFile fails on a directory before
\* the other two are reached), the result counted; after the n-th result
\* the public key is checked (onCurve) and the loop left.
LoopEndWith(indexErr, fault, onCurve) ==
    /\ kgPc = "select"
    /\ Len(endCh) > 0
    /\ endCh' = Tail(endCh)
    /\ LET save == Head(endCh)
           written == TryWriteWithFaults(kgFiles, DataDir, save.index, save, fault)
           opened == kgFiles[MakeKeyGenDataFilePath(DataDir, save.index)].kind # "dir"
                         /\ fault # "open"
       IN  IF indexErr
           THEN /\ kgPc' = "panicked"
                /\ kgCause' = "no original index"
                /\ UNCHANGED <<kgFiles, ended>>
           ELSE IF written.panic
           THEN /\ kgPc' = "panicked"
                /\ kgCause' = CASE opened /\ fault = "marshal" ->
                                      "unable to marshal save data"
                                 [] opened /\ fault = "write" ->
                                      "unable to write to fixture file"
                                 [] OTHER -> "unable to open fixture file"
                /\ kgFiles' = written.files
                /\ UNCHANGED ended
           ELSE /\ kgFiles' = written.files
                /\ ended' = ended + 1
                /\ IF KeyGenFinished(ended + 1, kgN)
                   THEN IF ~onCurve
                        THEN /\ kgPc' = "panicked"
                             /\ kgCause' = "public key not on curve"
                        ELSE /\ kgPc' = "exited"
                             /\ UNCHANGED kgCause
                   ELSE UNCHANGED <<kgPc, kgCause>>
    /\ UNCHANGED <<kgN, errCh, outCh, kgParty, kgPending, kgBroken, kgEmitted,
                   kgTasks, receivedIncomingMsgs>>
    /\ UNCHANGED notKeyGen

LoopEnd ==
    \E indexErr \in BOOLEAN, fault \in WriteFaults, onCurve \in BOOLEAN :
        LoopEndWith(indexErr, fault, onCurve)

PartyEmits == \E p \in Parties : \E m \in PartyMsgs(p) : PartyEmit(p, m)
PartyUnblocks == \E p \in Parties : PartyUnblock(p)
PartyEnds == \E p \in Parties : PartyEnd(p)
PartyStartFailures == \E p \in Parties : PartyStartFails(p)
UpdaterApplies == \E task \in BagToSet(kgTasks) : UpdaterApply(task)
UpdaterFailures == \E task \in BagToSet(kgTasks) : UpdaterFail(task)

\* ------------------------------------------------------ joinPartyChan

\* The most calls of notifyJoinPartyChan in a behaviour.
MaxNotifies == 2
\* The most calls of setJoinPartyChan and unsetJoinPartyChan together.
MaxSetCalls == 3

\* The channels handed to setJoinPartyChan.
JoinPartyChans == {"jpc1", "jpc2"}

\* No channel is set and nothing has been called.
NotifyIdle ==
    /\ joinPartyChan = "nil"
    /\ jpcSignals = [c \in JoinPartyChans |-> 0]
    /\ setCalls = 0
    /\ nfPc = "idle"
    /\ nfSeen = "nil"
    /\ nfChan = "nil"
    /\ nfSent = 0
    /\ nfCalls = 0

notNotify ==
    <<serverVars, retryVars, leaderVars, sessVars, kgVars, writeVars, mockVars>>

\* t.setJoinPartyChan(jpc): t.joinPartyChan = jpc
SetJoinPartyChan(jpc) ==
    /\ setCalls < MaxSetCalls
    /\ setCalls' = setCalls + 1
    /\ joinPartyChan' = jpc
    /\ UNCHANGED <<jpcSignals, nfPc, nfSeen, nfChan, nfSent, nfCalls>>
    /\ UNCHANGED notNotify

\* t.unsetJoinPartyChan(): t.joinPartyChan = nil
UnsetJoinPartyChan ==
    /\ setCalls < MaxSetCalls
    /\ setCalls' = setCalls + 1
    /\ joinPartyChan' = "nil"
    /\ UNCHANGED <<jpcSignals, nfPc, nfSeen, nfChan, nfSent, nfCalls>>
    /\ UNCHANGED notNotify

\* t.notifyJoinPartyChan() is called and makes its check,
\* if t.joinPartyChan != nil: it returns when the field is nil.
NotifyCheck ==
    /\ nfPc \in {"idle", "returned"}
    /\ nfCalls < MaxNotifies
    /\ nfCalls' = nfCalls + 1
    /\ nfSeen' = joinPartyChan
    /\ nfChan' = "nil"
    /\ nfSent' = 0
    /\ nfPc' = IF joinPartyChan = "nil" THEN "returned" ELSE "send"
    /\ UNCHANGED <<joinPartyChan, jpcSignals, setCalls>>
    /\ UNCHANGED notNotify

\* The channel the send statement operates on.  The statement reads the
\* field again, with no synchronisation with the tasks that write it: the
\* build may load the field a second time or use the value the check
\* loaded.
SendOperand == {nfSeen, joinPartyChan}

\* t.joinPartyChan <- struct{}{}, first half: the channel operand is
\* evaluated and the call starts to wait for the send to go through; a send
\* on a nil channel blocks forever.
NotifySendOperand ==
    /\ nfPc = "send"
    /\ \E ch \in SendOperand :
          /\ nfChan' = ch
          /\ nfPc' = IF ch = "nil" THEN "blocked on nil" ELSE "sending"
    /\ UNCHANGED <<joinPartyChan, jpcSignals, setCalls, nfSeen, nfSent, nfCalls>>
    /\ UNCHANGED notNotify

\* t.joinPartyChan <- struct{}{}, second half: the receiver takes the signal
\* from the channel the operand named, whatever the field holds by now, and
\* the call returns.
NotifySend ==
    /\ nfPc = "sending"
    /\ jpcSignals' = [jpcSignals EXCEPT ![nfChan] = @ + 1]
    /\ nfSent' = nfSent + 1
    /\ nfPc' = "returned"
    /\ UNCHANGED <<joinPartyChan, setCalls, nfSeen, nfChan, nfCalls>>
    /\ UNCHANGED notNotify

SetJoinPartyChans == \E jpc \in JoinPartyChans : SetJoinPartyChan(jpc)

\* ------------------------------------------- tryWriteKeyGenDataFile, called

\* The most calls of tryWriteKeyGenDataFile in a behaviour.
MaxWrites == 3

\* The party indices of the calls.
WriteIndices == 0..(MaxParties - 1)

\* The save data handed to the calls: for each party index, three
\* different shares.
WriteData ==
    { [index |-> i, share |-> v] : i \in WriteIndices, v \in {"s1", "s2", "s3"} }

\* tryWriteKeyGenDataFile is not being called.
WriteIdle ==
    /\ twFiles = <<>>
    /\ twFirst = <<>>
    /\ twLast = NoSaveData
    /\ twPc = "none"
    /\ twCalls = 0

\* main has just created the data directory (os.Mkdir after the check that
\* it did not exist): it holds no file.
WriteInit ==
    /\ twFiles = [f \in { MakeKeyGenDataFilePath(DataDir, i) : i \in WriteIndices }
                    |-> NoFile]
    /\ twFirst = [i \in WriteIndices |-> NoSaveData]
    /\ twLast = NoSaveData
    /\ twPc = "ready"
    /\ twCalls = 0

\* One call tryWriteKeyGenDataFile(dir, data.index, data); a panic ends the
\* process.
CallTryWrite(data, fault) ==
    /\ twPc = "ready"
    /\ twCalls < MaxWrites
    /\ twCalls' = twCalls + 1
    /\ twLast' = data
    /\ LET written == TryWriteWithFaults(twFiles, DataDir, data.index, data, fault)
       IN  /\ twFiles' = written.files
           /\ twPc' = IF written.panic THEN "panicked" ELSE "ready"
           /\ twFirst' = IF ~written.panic /\ twFirst[data.index] = NoSaveData
                         THEN [twFirst EXCEPT ![data.index] = data]
                         ELSE twFirst
    /\ UNCHANGED <<serverVars, retryVars, leaderVars, sessVars, kgVars,
                   notifyVars, mockVars>>

CallTryWrites ==
    \E data \in WriteData, fault \in WriteFaults : CallTryWrite(data, fault)

\* ---------------------------------------------------------- MockTssServer

\* The most calls on a MockTssServer in a behaviour.
MaxMockCalls == 2

\* What conversion.GetRandomPubKey() and GetRandomPeerID() may return.
RandomPubKeys == {"pubkey1", "pubkey2"}
RandomPeerIDs == {"peer1", "peer2"}

\* blame.Blame{}
EmptyBlame == [FailReason |-> "", BlameNodes |-> <<>>]

\* keygen.Response{} and keysign.Response{}: the zero values.
EmptyKeygenResponse ==
    [PubKey |-> "", PoolAddress |-> "", Status |-> "NA", Blame |-> EmptyBlame]
EmptyKeysignResponse ==
    [Signatures |-> <<>>, Status |-> "NA", Blame |-> EmptyBlame]

\* keygen.NewResponse(pk, addr, status, blame)
NewKeygenResponse(pk, addr, status, blame) ==
    [PubKey |-> pk, PoolAddress |-> addr, Status |-> status, Blame |-> blame]

\* keysign.NewSignature(msg, r, s, recoveryID)
NewSignature(msg, r, s, recoveryID) ==
    [Msg |-> msg, R |-> r, S |-> s, RecoveryID |-> recoveryID]

\* keysign.NewResponse(signatures, status, blame)
NewKeysignResponse(signatures, status, blame) ==
    [Signatures |-> signatures, Status |-> status, Blame |-> blame]

\* No mock server exists.
MockIdle ==
    /\ failToStart = FALSE
    /\ failToKeyGen = FALSE
    /\ failToKeySign = FALSE
    /\ mkLog = <<>>

\* A MockTssServer with any flags.
MockInit ==
    /\ failToStart \in BOOLEAN
    /\ failToKeyGen \in BOOLEAN
    /\ failToKeySign \in BOOLEAN
    /\ mkLog = <<>>

\* A call returns: it is logged with the value and the error it returned.
\* No method assigns to a field of the mock.
MockReturns(op, value, err) ==
    /\ Len(mkLog) < MaxMockCalls
    /\ mkLog' = Append(mkLog, [op |-> op, value |-> value, err |-> err])
    /\ UNCHANGED <<failToStart, failToKeyGen, failToKeySign>>
    /\ UNCHANGED <<serverVars, retryVars, leaderVars, sessVars, kgVars,
                   notifyVars, writeVars>>

\* func (mts *MockTssServer) Start() error
MockStart ==
    IF failToStart
    THEN MockReturns("Start", "", "you ask for it")
    ELSE MockReturns("Start", "", "nil")

\* func (mts *MockTssServer) Stop()
MockStop == MockReturns("Stop", "", "nil")

\* func (mts *MockTssServer) GetLocalPeerID() string
MockGetLocalPeerID ==
    \E id \in RandomPeerIDs : MockReturns("GetLocalPeerID", id, "nil")

\* func (mts *MockTssServer) GetLocalPubKey() string
MockGetLocalPubKey ==
    \E pk \in RandomPubKeys : MockReturns("GetLocalPubKey", pk, "nil")

\* func (mts *MockTssServer) GetKnownPeers() []tss.PeerInfo
MockGetKnownPeers == MockReturns("GetKnownPeers", <<>>, "nil")

\* A plausible slip: Keygen looks at the flag of KeySign.
MockKeygenWrongFlag ==
    IF failToKeySign
    THEN MockReturns("Keygen", EmptyKeygenResponse, "you ask for it")
    ELSE \E pk \in RandomPubKeys :
            MockReturns("Keygen",
                        NewKeygenResponse(pk, "whatever", "Success", EmptyBlame),
                        "nil")

\* func (mts *MockTssServer) Keygen(req keygen.Request)
MockKeygen ==
    IF failToKeyGen
    THEN MockReturns("Keygen", EmptyKeygenResponse, "you ask for it")
    ELSE \E pk \in RandomPubKeys :
            MockReturns("Keygen",
                        NewKeygenResponse(pk, "whatever", "Success", EmptyBlame),
                        "nil")

\* func (mts *MockTssServer) KeySign(req keysign.Request)
MockKeySign ==
    IF failToKeySign
    THEN MockReturns("KeySign", EmptyKeysignResponse, "you ask for it")
    ELSE LET newSig == NewSignature("", "", "", "")
         IN  MockReturns("KeySign",
                         NewKeysignResponse(<<newSig>>, "Success", EmptyBlame),
                         "nil")

\* ---------------------------------------------------------- specifications

\* No request is being turned into a session id.
MsgIdle ==
    /\ original = NoRequest
    /\ request = NoRequest
    /\ pending = FALSE
    /\ calls = 0
    /\ submitted = NoRequest
    /\ nodes = {}
    /\ ret = NoReturn
    /\ dat = NoBytes
    /\ ids = {}
    /\ prev = NoPrev

\* Start and Stop have not been called, and no task waits.
LifeInit ==
    /\ startCalls = 0
    /\ startRet = "none"
    /\ lastStartAt = "none"
    /\ stopPc = "idle"
    /\ panicked = FALSE
    /\ waitPc = [w \in Waiters |-> "idle"]

\* No Keygen or KeySign request has arrived.
LockInit ==
    /\ keygenPc = [k \in KeygenCalls |-> "idle"]
    /\ keysignPc = [k \in KeysignCalls |-> "idle"]
    /\ overlapped = FALSE

\* No server is being constructed.
NoNewTss ==
    /\ ntPc = "none"
    /\ cmdBootstrapPeers = <<>>
    /\ preParamsGiven = "nil"
    /\ preParams = "nil"
    /\ generated = FALSE
    /\ savedErr = FALSE
    /\ savedPeers = <<>>
    /\ bootstrapPeers = <<>>
    /\ commPeers = <<>>
    /\ ntErr = "nil"
    /\ comm = "none"
    /\ pcoord = "none"
    /\ notifier = "none"
    /\ server = NoServer

\* A server as NewTss returns it, given valid pre-parameters.
Constructed ==
    /\ ntPc = "returned"
    /\ cmdBootstrapPeers = <<>>
    /\ preParamsGiven = "valid"
    /\ preParams = "nil"
    /\ generated = FALSE
    /\ savedErr = FALSE
    /\ savedPeers = <<>>
    /\ bootstrapPeers = <<>>
    /\ commPeers = <<>>
    /\ ntErr = "nil"
    /\ comm = "started"
    /\ pcoord = "running"
    /\ notifier = "created"
    /\ server = ConstructedServer("valid")

\* No request is being served by the facade.
ServerIdle == MsgIdle /\ JoinInit /\ NoNewTss /\ LifeInit /\ LockInit

\* No join-party round is under way.
ExtIdle ==
    /\ RetryIdle /\ LeaderIdle /\ SessionIdle /\ KeyGenIdle /\ NotifyIdle
    /\ WriteIdle /\ MockIdle

\* The server: NewTss, then Start, Stop and the tasks that wait for the
\* stop signal, in any interleaving.
Init == MsgIdle /\ JoinInit /\ NewTssInit /\ LifeInit /\ LockInit /\ ExtIdle
Next == NewTss \/ Start \/ Stop \/ StopWaiters
Spec == Init /\ [][Next]_vars

\* Keygen and KeySign requests on a constructed server, in any interleaving.
LockSpecInit == MsgIdle /\ JoinInit /\ Constructed /\ LifeInit /\ LockInit /\ ExtIdle
LockNext == Keygen \/ KeySign
SpecLock == LockSpecInit /\ [][LockNext]_vars

\* joinParty, called with every version and participant list.
JoinSpecInit == MsgIdle /\ JoinInit /\ NoNewTss /\ LifeInit /\ LockInit /\ ExtIdle
JoinNext == JoinParty \/ JoinPartyReturn
SpecJoin == JoinSpecInit /\ [][JoinNext]_vars

\* requestToMsgId: one request, handed to the nodes in every order of its
\* slices.
MsgIdInit == MsgInit /\ JoinInit /\ NoNewTss /\ LifeInit /\ LockInit /\ ExtIdle
MsgIdNext == Resubmit \/ CallRequestToMsgId
SpecMsgId == MsgIdInit /\ [][MsgIdNext]_vars

\* requestToMsgId: two requests one after the other, each handed over once.
CollideNext == CallRequestToMsgId \/ NextRequest
SpecCollide == MsgIdInit /\ [][CollideNext]_vars

\* The leaderless join-party round of one session, seen from every peer.
RetrySpecInit ==
    /\ ServerIdle /\ RetryInit /\ LeaderIdle /\ SessionIdle /\ KeyGenIdle
    /\ NotifyIdle /\ WriteIdle /\ MockIdle
RetryNext == RetryJoins \/ RetryIntents \/ RetryTimeouts \/ JoinPartyRetryReturns
SpecRetry == RetrySpecInit /\ [][RetryNext]_vars

\* The leader-based join-party round of one session, seen from every peer.
LeaderSpecInit ==
    /\ ServerIdle /\ RetryIdle /\ LeaderInit /\ SessionIdle /\ KeyGenIdle
    /\ NotifyIdle /\ WriteIdle /\ MockIdle
LeaderNext ==
    \/ LeaderJoin \/ FollowerRequests \/ LeaderReceives \/ LeaderSelect
    \/ LeaderTimeout \/ FollowerAdopts \/ FollowerTimeouts
    \/ JoinPartyLeaderReturns
SpecLeader == LeaderSpecInit /\ [][LeaderNext]_vars

\* The sessions of a node, each driven by its engine and told of events by
\* the coordinator, the MPC party and the timer.
SessionSpecInit ==
    /\ ServerIdle /\ RetryIdle /\ LeaderIdle /\ SessionIdle /\ KeyGenIdle
    /\ NotifyIdle /\ WriteIdle /\ MockIdle
SessionNext ==
    \/ SessionRequests \/ SessionStartJoins \/ CoordinatorAnswer \/ RunEmit
    \/ EngineHandles
SpecSession == SessionSpecInit /\ [][SessionNext]_vars

\* runKeyGen: the routing loop, the parties and the delivery tasks, in any
\* interleaving.
KeyGenSpecInit ==
    /\ ServerIdle /\ RetryIdle /\ LeaderIdle /\ SessionIdle /\ KeyGenInit
    /\ NotifyIdle /\ WriteIdle /\ MockIdle
KeyGenNext ==
    \/ PartyEmits \/ PartyUnblocks \/ PartyEnds \/ PartyStartFailures
    \/ UpdaterApplies \/ UpdaterFailures
    \/ LoopErr \/ LoopOut \/ LoopEnd
SpecKeyGen == KeyGenSpecInit /\ [][KeyGenNext]_vars

\* The same under fair scheduling: the run does not stall while the loop
\* has a ready select case, a send can go through, a started delivery task
\* can run, or a party can emit a message or end.
KeyGenFairness ==
    WF_vars(LoopErr \/ LoopOut \/ LoopEnd \/ PartyEmits \/ PartyUnblocks
              \/ PartyEnds \/ UpdaterApplies)
SpecKeyGenFair == SpecKeyGen /\ KeyGenFairness

\* notifyJoinPartyChan in one task, setJoinPartyChan and unsetJoinPartyChan
\* in another, in any interleaving.
NotifySpecInit == ServerIdle /\ ExtIdle
NotifyNext ==
    \/ SetJoinPartyChans \/ UnsetJoinPartyChan
    \/ NotifyCheck \/ NotifySendOperand \/ NotifySend
SpecNotify == NotifySpecInit /\ [][NotifyNext]_vars

\* tryWriteKeyGenDataFile, called with every party index and save data, in
\* any order.
WriteSpecInit ==
    /\ ServerIdle /\ RetryIdle /\ LeaderIdle /\ SessionIdle /\ KeyGenIdle
    /\ NotifyIdle /\ WriteInit /\ MockIdle
SpecWrite == WriteSpecInit /\ [][CallTryWrites]_vars

\* A MockTssServer with any flags, its methods called in any order.
MockSpecInit ==
    /\ ServerIdle /\ RetryIdle /\ LeaderIdle /\ SessionIdle /\ KeyGenIdle
    /\ NotifyIdle /\ WriteIdle /\ MockInit
MockNext ==
    \/ MockStart \/ MockStop \/ MockGetLocalPeerID \/ MockGetLocalPubKey
    \/ MockGetKnownPeers \/ MockKeygen \/ MockKeySign
SpecMock == MockSpecInit /\ [][MockNext]_vars

\* ------------------------------------------------ reference constructions

\* s is in ascending order.
Ascending(s) == \A i, j \in 1..Len(s) : i < j => ~StrLess(s[j], s[i])

\* The ascending rearrangement of s.
SortedAscending(s) == CHOOSE p \in Perms(s) : Ascending(p)

\* The strings of s one after the other.
Concatenated(s) ==
    LET F[k \in 0..Len(s)] == IF k = 0 THEN <<>> ELSE F[k - 1] \o s[k]
    IN  F[Len(s)]

\* The strings of s with a comma between each two neighbours.
CommaJoined(s) ==
    IF Len(s) = 0 THEN <<>>
    ELSE Concatenated([k \in 1..(2 * Len(s) - 1) |->
                          IF k % 2 = 1 THEN s[(k + 1) \div 2] ELSE <<Comma>>])

\* The hash input the specification prescribes for request r.
ReferenceHashInput(r) ==
    IF r.kind = "keygen" THEN Concatenated(SortedAscending(r.Keys))
    ELSE CommaJoined(SortedAscending(r.Messages))
             \o Concatenated(SortedAscending(r.Keys))

\* ------------------------------------------------------------------ claims

\* C1: requestToMsgId is deterministic and order-insensitive: all the calls
\* made for one request, on any node and with the Messages and the keys in
\* any order, return the same session id; they fail, all of them, only for
\* the request with no message and no key, whose hash input is empty.
C1_OrderInsensitive ==
    /\ Cardinality(ids) <= 1
    /\ (ret.err # "none" /\ original.kind \in {"keygen", "keysign"}) =>
          IF original.Messages = <<>> /\ original.Keys = <<>>
          THEN ret.err = "empty message" /\ ret.id = <<>> /\ ids = {}
          ELSE ret.err = "nil" /\ ids = {ret.id}

\* C1 witness: a keysign request was hashed twice, on two nodes, the second
\* time with both its Messages and its signer keys in another order.
C1_Witness ==
    /\ original.kind = "keysign"
    /\ calls >= 2
    /\ nodes = Servers
    /\ original.Messages # submitted.Messages
    /\ original.Keys # submitted.Keys
    /\ ids # {}

\* C2: SessionId collisions imply identical inputs: two accepted requests
\* with the same byte string handed to the hash are of the same kind and
\* have the same multiset of messages and the same multiset of public keys.
C2_CollisionImpliesSameInputs ==
    (prev.accepted /\ ret.err = "nil" /\ prev.dat = dat)
        => /\ prev.kind = original.kind
           /\ prev.Messages = BagOf(original.Messages)
           /\ prev.Keys = BagOf(original.Keys)

\* C3: the hash input built by requestToMsgId is the reference one: sorted
\* keys concatenated for keygen; sorted messages joined by commas, then the
\* sorted signer keys concatenated, for keysign.
C3_HashInputIsReference ==
    ret.hashed => dat = ReferenceHashInput(submitted)

\* C3 witness: a keysign request with two messages and two signer keys, both
\* out of order, was hashed.
C3_Witness ==
    /\ ret.hashed
    /\ submitted.kind = "keysign"
    /\ Len(submitted.Messages) >= 2 /\ ~Ascending(submitted.Messages)
    /\ Len(submitted.Keys) >= 2 /\ ~Ascending(submitted.Keys)

\* The variants the latest joinParty call invoked.
InvokedVariants == { jpInvoked[i].variant : i \in 1..Len(jpInvoked) }

\* The version of the latest joinParty call is strictly older than
\* NEW_JOIN_PARTY_VERSION.
OlderVersion == VersionLTCheck(jpArgs.version, NEWJOINPARTYVERSION).lt

\* C4 as stated: per call exactly one variant is invoked, JoinPartyWithRetry
\* if and only if the version is strictly older than NEW_JOIN_PARTY_VERSION
\* and JoinPartyWithLeader otherwise.
C4_ExactlyOneVariantPerCall ==
    jpArgs.called =>
        /\ Len(jpInvoked) = 1
        /\ ("JoinPartyWithRetry" \in InvokedVariants) <=> OlderVersion
        /\ ("JoinPartyWithLeader" \in InvokedVariants) <=> ~OlderVersion

\* C4 amended: per call at most one variant is invoked; JoinPartyWithRetry
\* exactly when the version parses, is strictly older than
\* NEW_JOIN_PARTY_VERSION and every participant key converts;
\* JoinPartyWithLeader exactly when the version parses, is not older (equal
\* included), the participant list is not empty and every key converts.
C4_AtMostOneVariantByVersion ==
    jpArgs.called =>
        LET parses == ParseVersion(jpArgs.version).ok
            converts == \A i \in 1..Len(jpArgs.participants) :
                            jpArgs.participants[i] # BadKey
        IN  /\ Len(jpInvoked) <= 1
            /\ ("JoinPartyWithRetry" \in InvokedVariants)
                   <=> (parses /\ OlderVersion /\ converts)
            /\ ("JoinPartyWithLeader" \in InvokedVariants)
                   <=> (parses /\ ~OlderVersion /\ converts
                            /\ Len(jpArgs.participants) > 0)

\* C4 witness: a call with the version equal to NEW_JOIN_PARTY_VERSION went
\* to JoinPartyWithLeader.
C4_Witness ==
    /\ jpArgs.called
    /\ jpArgs.version = NEWJOINPARTYVERSION
    /\ Len(jpArgs.participants) = 2
    /\ InvokedVariants = {"JoinPartyWithLeader"}

\* The Keygen requests inside their MPC rounds, and the KeySign ones.
KeygensRunning == { k \in KeygenCalls : keygenPc[k] = "running" }
KeysignsRunning == { k \in KeysignCalls : keysignPc[k] = "running" }

C6_ReturnedServerHasValidPreParams ==
    server.constructed => Validate(server.preParams)

\* C6 witness: a server was returned whose pre-parameters NewTss generated
\* because none were supplied.
C6_Witness ==
    /\ server.constructed
    /\ ntPc = "returned"
    /\ preParamsGiven = "nil"
    /\ generated

\* C7 as stated: when the pre-parameters handed to NewTss fail Validate(),
\* NewTss returns an error and no server.
C7_InvalidGivenIsFatal ==
    preParamsGiven = "invalid" => (ntPc # "returned" /\ ~server.constructed)

\* C7 amended: supplied pre-parameters that fail Validate() are replaced by
\* generated ones; NewTss goes past the check only with pre-parameters that
\* pass Validate(), fails with "invalid preparams" only when the generated
\* ones fail it, and a failed NewTss returns no server.
C7_InvalidAfterGenerationIsFatal ==
    /\ (preParamsGiven = "invalid"
            /\ ntPc \in {"validate", "priKey", "commStart", "build", "returned"})
           => generated
    /\ ntPc \in {"priKey", "commStart", "build"} => Validate(preParams)
    /\ ntPc = "failed" => (~server.constructed /\ ntErr \in NewTssErrors)
    /\ (ntPc = "failed" /\ ntErr = "invalid preparams")
           => (generated /\ ~Validate(preParams))

\* C7 witness: invalid pre-parameters were supplied, the generated ones
\* failed Validate() too, and NewTss failed.
C7_Witness ==
    /\ preParamsGiven = "invalid"
    /\ generated
    /\ ntPc = "failed"
    /\ ntErr = "invalid preparams"

\* C8: Start is a no-op that returns nil: a Start call changes no field of
\* the server, of the transport or of the party coordinator, in any state;
\* and the transport is started when NewTss returns.
C8_StartIsNoOp ==
    /\ [][startCalls' # startCalls =>
              /\ startRet' = "nil"
              /\ UNCHANGED <<server, comm, pcoord, notifier, stopPc, panicked>>]_vars
    /\ []((ntPc = "returned" /\ stopPc = "idle") => comm = "started")

\* C8 witness: Start has been called twice, the second time after Stop had
\* returned.
C8_Witness ==
    /\ startCalls >= 2
    /\ lastStartAt = "returned"
    /\ startRet = "nil"

\* C9: Stop closes the stop signal, then stops the transport, then stops
\* the party coordinator, whether or not stopping the transport fails; once
\* Stop has returned no task is blocked on the stop signal.
C9_StopOrder ==
    /\ comm \in {"stopped", "stopFailed"} => server.stopChan = "closed"
    /\ pcoord = "stopped" => comm \in {"stopped", "stopFailed"}
    /\ stopPc \in {"p2p", "coordinator", "returned"} => server.stopChan = "closed"
    /\ stopPc = "returned" =>
           /\ pcoord = "stopped"
           /\ \A w \in Waiters :
                  waitPc[w] = "waiting" => server.stopChan = "closed"

\* C9 witness: Stop has returned although stopping the transport failed; the
\* coordinator is stopped and a task that waited has been released.
C9_Witness ==
    /\ stopPc = "returned"
    /\ comm = "stopFailed"
    /\ pcoord = "stopped"
    /\ \E w \in Waiters : waitPc[w] = "released"

\* The bootstrap peer list the specification prescribes.
ExpectedBootstrapPeers ==
    IF savedErr THEN cmdBootstrapPeers ELSE savedPeers \o cmdBootstrapPeers

\* C10: the bootstrap peers are the address-book peers followed by the
\* command-line ones, or the command-line ones alone when the address book
\* cannot be read; that read never makes NewTss fail.
C10_BootstrapPeers ==
    /\ ntPc \in {"newComm", "preParams", "validate", "priKey", "commStart", "build"}
           => bootstrapPeers = ExpectedBootstrapPeers
    /\ (comm # "none" /\ ntPc # "returned") => commPeers = ExpectedBootstrapPeers
    /\ ntPc = "failed" => ntErr \in NewTssErrors
    /\ ntPc = "retrieve" => ~savedErr

\* C10 witness: the address book could not be read and NewTss went on to
\* start the transport with the command-line peers alone.
C10_Witness ==
    /\ savedErr
    /\ ntPc = "build"
    /\ comm = "started"
    /\ Len(cmdBootstrapPeers) >= 1
    /\ commPeers = cmdBootstrapPeers

\* ---------------------------------------------------------------- C11

\* C11: on the leaderless path the party is formed for a peer exactly when
\* it holds intents of at least threshold+1 distinct participants, itself
\* included; its joinParty call then returns those peers and no error, also
\* when the other participants never answer, and it returns an error only
\* when fewer than threshold+1 intents were there at the timeout.
C11_FormedAtThresholdPlusOne ==
    \A p \in rtPeers :
        /\ rtStatus[p] = "formed" <=> Cardinality(rtGot[p]) >= rtThreshold + 1
        /\ rtRet[p].err = "nil" =>
              /\ rtStatus[p] = "formed"
              /\ rtRet[p].leader = "NONE"
              /\ rtRet[p].onlines \subseteq rtLive
              /\ p \in rtRet[p].onlines
              /\ Cardinality(rtRet[p].onlines) >= rtThreshold + 1
        /\ rtRet[p].err \notin {"nil", "none"} =>
              /\ rtStatus[p] = "timeout"
              /\ Cardinality(rtRet[p].onlines) < rtThreshold + 1

\* ---------------------------------------------------------------- C12

\* The list is the first k peers of the set S in lexicographic order.
IsFirstInOrder(list, S, k) ==
    /\ Len(list) = k
    /\ \A i \in 1..Len(list) : list[i] \in S
    /\ \A i \in 1..(Len(list) - 1) : StrLess(list[i], list[i + 1])
    /\ \A p \in S :
          (\A i \in 1..Len(list) : list[i] # p) =>
              \A i \in 1..Len(list) : StrLess(list[i], p)

\* C12: in the leader-based round every participant whose joinParty call
\* succeeds returns the one chosen_peers list the leader broadcast, with the
\* leader's name; that list is the first threshold+1 of the distinct
\* requesters the leader had, itself included, in lexicographic order.
C12_SameChosenPeers ==
    \A p \in ldPeers :
        ldRet[p].err = "nil" =>
            /\ ldRet[p].onlines = ldSelected
            /\ ldRet[p].leader = Leader
            /\ Leader \in ldAtSelection
            /\ ldAtSelection \subseteq ldLive
            /\ IsFirstInOrder(ldRet[p].onlines, ldAtSelection, ldThreshold + 1)
            /\ \A q \in ldPeers :
                  ldRet[q].err = "nil" => ldRet[q].onlines = ldRet[p].onlines

\* The leader selected among more requesters than threshold+1, left one out,
\* and a follower and the leader have both returned the list.
C12_Witness ==
    /\ Cardinality(ldAtSelection) > ldThreshold + 1
    /\ ldThreshold >= 1
    /\ ldRet[Leader].err = "nil"
    /\ \E p \in ldPeers \ {Leader} : ldRet[p].err = "nil"

\* ---------------------------------------------------------------- C13

SessionTransitions ==
    { <<"none", "NEW">>, <<"NEW", "JOINING">>, <<"JOINING", "RUNNING">>,
      <<"JOINING", "TIMEOUT">>, <<"RUNNING", "DONE">>, <<"RUNNING", "FAILED">> }

\* C13: a session starts in NEW and moves only from NEW to JOINING, from
\* JOINING to RUNNING or TIMEOUT and from RUNNING to DONE or FAILED; no step
\* leaves DONE, FAILED or TIMEOUT; and only the engine task that owns the
\* session ever writes its state.
C13_SessionLifecycle ==
    [][\A s \in Sessions :
          /\ ssState'[s] # ssState[s] =>
                /\ <<ssState[s], ssState'[s]>> \in SessionTransitions
                /\ ssState[s] \notin {"DONE", "FAILED", "TIMEOUT"}
          /\ ssWriters'[s] \subseteq {EngineOf(s)}]_vars

\* A session is DONE, its engine has dropped the timer's late event, and
\* another session has ended in TIMEOUT.
C13_Witness ==
    \E s \in Sessions, u \in Sessions :
        /\ ssState[s] = "DONE"
        /\ "protocolTimeout" \in ssEmitted[s]
        /\ ssInbox[s] = <<>>
        /\ ssState[u] = "TIMEOUT"
        /\ ssWriters[s] = {EngineOf(s)}

\* ---------------------------------------------------------------- C14

\* The loop takes a message from outCh in this step.
RoutingStep == Len(outCh') < Len(outCh)

\* One delivery of msg to each party of the set.
OneEach(msg, parties) == SetToBag({ [party |-> p, msg |-> msg] : p \in parties })

\* C14: when the loop routes a message, a broadcast is handed exactly once
\* to every party but its sender and not to the sender; a point-to-point
\* message is handed exactly once to the party at its first destination
\* index and to no other; a point-to-point message to its own sender is
\* handed to nobody and the run panics.
C14_RoutingDeliversOnce ==
    [][RoutingStep =>
         LET msg == Head(outCh)
         IN  IF msg.bcast
             THEN /\ kgTasks' = kgTasks (+) OneEach(msg, Parties \ {msg.from})
                  /\ kgPc' = "select"
             ELSE IF msg.to[1] = msg.from
             THEN /\ kgTasks' = kgTasks
                  /\ kgPc' = "panicked"
             ELSE /\ kgTasks' = kgTasks (+) OneEach(msg, {msg.to[1]})
                  /\ kgPc' = "select"]_vars

\* A broadcast and a point-to-point message with two destinations have
\* both been routed, and their deliveries are under way.
C14_Witness ==
    /\ kgN >= 2
    /\ \E b \in BagToSet(kgTasks), d \in BagToSet(kgTasks) :
          /\ b.msg.bcast
          /\ ~d.msg.bcast /\ Len(d.msg.to) = 2

\* ---------------------------------------------------------------- C15

\* C15: the updates for two messages of one sender to one party are applied
\* in the order the sender emitted them: no update is applied while the
\* delivery of an earlier message of the same sender to the same party is
\* still waiting.
C15_SendOrderKept ==
    [][\A task \in BagToSet(kgTasks) :
          (errCh' = errCh
              /\ CopiesIn(task, kgTasks') < CopiesIn(task, kgTasks)) =>
            ~\E earlier \in BagToSet(kgTasks') :
                /\ earlier.party = task.party
                /\ earlier.msg.from = task.msg.from
                /\ earlier.msg.seq < task.msg.seq]_vars

\* ---------------------------------------------------------------- C16

\* The data files of the run that were written to the end.
FilesWritten ==
    { f \in DOMAIN kgFiles :
        kgFiles[f].kind = "file" /\ kgFiles[f] # TruncatedFile }

\* C16: the loop is left only by the step that receives the n-th save
\* result; every result counted was first written with
\* tryWriteKeyGenDataFile; an error received from errCh panics; and under
\* fair scheduling the loop is left unless a party failed.
C16_ExitsOnCompletion ==
    /\ [](kgPc = "exited" => ended = kgN /\ Cardinality(FilesWritten) = kgN)
    /\ [](kgPc # "none" => ended = Cardinality(FilesWritten))
    /\ [][kgPc' = "exited" /\ kgPc # "exited" =>
            Len(endCh') < Len(endCh) /\ ended = kgN - 1 /\ ended' = kgN]_vars
    /\ [][Len(errCh') < Len(errCh) => kgPc' = "panicked"]_vars
    /\ <>(kgPc = "exited" \/ kgBroken # {} \/ kgCause # "none")

\* A run of the largest party has routed messages and left the loop.
C16_Witness ==
    /\ kgPc = "exited"
    /\ kgN = MaxParties
    /\ receivedIncomingMsgs >= 1
    /\ kgTasks = EmptyBag

\* ---------------------------------------------------------------- C20

\* Party p is blocked in a send on outCh.
BlockedInSend(p) == p \in DOMAIN kgParty /\ kgParty[p] = "blocked"

\* C20: a routing step hands every delivery of its message to a task of
\* its own and leaves the loop at its select; no party ever finds endCh full; and under fair scheduling a
\* send blocked on the full outCh goes through, so that no party stays
\* blocked, as long as the run has not ended.
C20_LoopNeverBlocks ==
    /\ [][RoutingStep =>
            \/ kgPc' = "panicked"
            \/ /\ kgPc' = "select"
               /\ BagCardinality(kgTasks') =
                     BagCardinality(kgTasks)
                       + Cardinality(AddressedTo(Head(outCh)))]_vars
    /\ [](\A p \in Parties :
            kgParty[p] \in {"started", "running"} => Len(endCh) < kgN)
    /\ (\E p \in Parties : BlockedInSend(p))
          ~> (kgPc # "select" \/ \A p \in Parties : ~BlockedInSend(p))

\* In a run of two parties or more a party is blocked in its send, which
\* found outCh full, while deliveries the loop has started are in flight.
C20_Witness ==
    \E p \in Parties :
        /\ kgN >= MinParties
        /\ kgParty[p] = "blocked"
        /\ kgTasks # EmptyBag
        /\ kgPc = "select"

\* ---------------------------------------------------------------- C17

\* The input of the latest joinParty call is invalid: the version does not
\* parse, a participant key does not convert, or no participant is given.
InvalidJoinInput ==
    \/ VersionLTCheck(jpArgs.version, NEWJOINPARTYVERSION).err # "nil"
    \/ GetPeerIDsFromPubKeys(jpArgs.participants).err # "nil"
    \/ Len(jpArgs.participants) = 0

\* C17: a joinParty call with invalid input returns an error and invokes
\* neither JoinPartyWithRetry nor JoinPartyWithLeader, whichever variant
\* the version selects.
C17_InvalidInputSurfaced ==
    jpArgs.called /\ InvalidJoinInput =>
        /\ jpRet.err \notin {"nil", "none"}
        /\ jpInvoked = <<>>

\* ---------------------------------------------------------------- C18

\* C18: requestToMsgId answers a request that is neither a keygen.Request
\* nor a keysign.Request with the unknown-type error and the empty id,
\* having hashed nothing and left the request as it was; it never answers
\* a keygen or a keysign request with that error.
C18_UnknownTypeRejected ==
    (~pending /\ calls > 0) =>
        IF submitted.kind \in {"keygen", "keysign"}
        THEN ret.err # "unknown request type"
        ELSE /\ ret.err = "unknown request type"
             /\ ret.id = <<>>
             /\ ~ret.hashed
             /\ dat = NoBytes
             /\ request = submitted

\* A pointer to a keygen request with two keys out of order was refused.
C18_Witness ==
    /\ ~pending /\ calls > 0
    /\ submitted.kind = "*keygen.Request"
    /\ Len(submitted.Keys) = 2
    /\ SortStrings(submitted.Keys) # submitted.Keys
    /\ ret.err = "unknown request type"

\* ---------------------------------------------------------------- C19

\* C19: a call of notifyJoinPartyChan that found a channel set sends one
\* signal and returns, a call that found none sends nothing, and no call
\* ever sends on a nil channel, whatever setJoinPartyChan and
\* unsetJoinPartyChan do meanwhile.
C19_NeverSendsOnNil ==
    /\ nfPc # "blocked on nil"
    /\ nfPc = "returned" => nfSent = (IF nfSeen = "nil" THEN 0 ELSE 1)

\* ---------------------------------------------------------------- C21

\* C21: a call of requestToMsgId with a keygen or a keysign request leaves
\* the caller's Keys (SignerPubKeys) and, for keysign, Messages with the
\* same multiset of elements, in ascending order; it changes nothing else
\* of the request and nothing of the server.
C21_SortedInPlace ==
    [][(calls' = calls + 1 /\ request.kind \in {"keygen", "keysign"}) =>
          /\ request'.kind = request.kind
          /\ BagOf(request'.Keys) = BagOf(request.Keys)
          /\ Ascending(request'.Keys)
          /\ BagOf(request'.Messages) = BagOf(request.Messages)
          /\ IF request.kind = "keysign"
             THEN Ascending(request'.Messages)
             ELSE request'.Messages = request.Messages
          /\ UNCHANGED <<joinVars, newTssVars, lifeVars, lockVars, extVars>>]_vars

\* A keysign request whose Messages and signer keys were both out of order
\* has come back from the call with both rearranged.
C21_Witness ==
    /\ ~pending /\ calls = 1
    /\ submitted.kind = "keysign"
    /\ ~Ascending(submitted.Messages) /\ ~Ascending(submitted.Keys)
    /\ request.Messages # submitted.Messages
    /\ request.Keys # submitted.Keys

\* ---------------------------------------------------------------- C22

\* The errors NewTss returns at or before the validation of the
\* pre-parameters.
ErrorsUpToValidation ==
    { "fail to genearte the key", "fail to create file state manager",
      "fail to create communication layer", "fail to generate pre parameters",
      "invalid preparams" }

\* C22: the transport is started only by a NewTss whose pre-parameters
\* have passed Validate(); the party coordinator and the signature
\* notifier are created only once the transport has started; a NewTss that
\* fails returns an error and no server; and one that fails at or before
\* the validation leaves no started transport.
C22_TransportAfterValidation ==
    /\ [][(comm' = "started" /\ comm # "started") =>
             (ntPc = "commStart" /\ Validate(preParams))]_vars
    /\ [][((pcoord = "none" /\ pcoord' # "none")
              \/ (notifier = "none" /\ notifier' # "none")) =>
             comm = "started"]_vars
    /\ [](ntPc = "failed" => (server = NoServer /\ ntErr # "nil"))
    /\ []((ntPc = "failed" /\ ntErr \in ErrorsUpToValidation) =>
             comm # "started")

\* NewTss was handed invalid pre-parameters and a saved address, generated
\* valid ones, started the transport and returned the server with its
\* coordinator and notifier.
C22_Witness ==
    /\ ntPc = "returned"
    /\ preParamsGiven = "invalid"
    /\ ~savedErr
    /\ comm = "started"
    /\ pcoord = "running"
    /\ notifier = "created"
    /\ server.constructed

\* ---------------------------------------------------------------- C23

\* The path of the latest call.
LastPath == MakeKeyGenDataFilePath(DataDir, twLast.index)

\* C23: a call that finds a regular file at the party's path returns
\* leaving every file as it was; a call that finds none and returns has
\* created the file with the JSON of its save data and touched no other
\* file; so the file of a party index holds the data of the first call that
\* returned for that index.
C23_NeverRewrites ==
    /\ [][twCalls' = twCalls + 1 =>
            LET path == MakeKeyGenDataFilePath(DataDir, twLast'.index)
            IN  IF twFiles[path].kind = "file"
                THEN twFiles' = twFiles /\ twPc' = "ready"
                ELSE twPc' = "ready" =>
                       twFiles' = [twFiles EXCEPT ![path] =
                                      RegularFile(JsonMarshal(twLast'))]]_vars
    /\ [](twPc = "ready" =>
            \A i \in WriteIndices :
                IF twFirst[i] = NoSaveData
                THEN twFiles[MakeKeyGenDataFilePath(DataDir, i)].kind = "absent"
                ELSE twFiles[MakeKeyGenDataFilePath(DataDir, i)] =
                         RegularFile(JsonMarshal(twFirst[i])))

\* A second call for a party index, with another share, has returned and
\* the file still holds the first share.
C23_Witness ==
    /\ twPc = "ready"
    /\ twCalls >= 2
    /\ twFirst[twLast.index] # NoSaveData
    /\ twFirst[twLast.index] # twLast
    /\ twFiles[LastPath] = RegularFile(JsonMarshal(twFirst[twLast.index]))

\* ---------------------------------------------------------------- C24

\* The flag a method of the mock looks at.
FlagOf(op) ==
    IF op = "Start" THEN failToStart
    ELSE IF op = "Keygen" THEN failToKeyGen
    ELSE IF op = "KeySign" THEN failToKeySign
    ELSE FALSE

\* C24: every call of Start, Keygen and KeySign, first or later, returns an
\* error exactly when its own flag is set; a failed Keygen or KeySign
\* returns the empty response, a successful one the status Success with an
\* empty blame; and no call, Stop included, changes a flag.
C24_MockIsFlagDriven ==
    /\ [](\A i \in 1..Len(mkLog) :
            LET call == mkLog[i]
            IN  /\ (call.err # "nil") <=> FlagOf(call.op)
                /\ call.op = "Keygen" =>
                      IF call.err # "nil"
                      THEN call.value = EmptyKeygenResponse
                      ELSE call.value.Status = "Success"
                             /\ call.value.Blame = EmptyBlame
                /\ call.op = "KeySign" =>
                      IF call.err # "nil"
                      THEN call.value = EmptyKeysignResponse
                      ELSE call.value.Status = "Success"
                             /\ call.value.Blame = EmptyBlame)
    /\ [][UNCHANGED <<failToStart, failToKeyGen, failToKeySign>>]_vars

\* On a mock whose Start and KeySign flags are set and whose Keygen flag is
\* not, Start has failed and the Keygen after it has succeeded.
C24_Witness ==
    /\ failToStart /\ ~failToKeyGen /\ failToKeySign
    /\ Len(mkLog) = 2
    /\ mkLog[1].op = "Start" /\ mkLog[1].err # "nil"
    /\ mkLog[2].op = "Keygen" /\ mkLog[2].err = "nil"

====
